---- MODULE Spec2Model ----
(***************************************************************************)
(* Clawd-router: the chat-completions handler with its fallback loop       *)
(* (src/src/proxy.ts), the AI routing agent with its turn cache            *)
(* (src/src/router/ai-router.ts) and the handler that calls it             *)
(* (src/unnamed/part_002, src/unnamed/part_004).                           *)
(*                                                                         *)
(* JavaScript runs a handler to completion between two awaits, so one      *)
(* action is the code from one await to the next.                          *)
(***************************************************************************)
EXTENDS Integers, Sequences, FiniteSets, TLC

VARIABLES
    \* ---- handleChatCompletions of src/src/proxy.ts, one request --------
    modelsToTry,   \* the chain (proxy.ts:200)
    stream,        \* Boolean(body.stream) (proxy.ts:186)
    i,             \* loop index of proxy.ts:235, 1-based here
    pc,            \* the await the handler is suspended at
    lastError,     \* proxy.ts:232, the message of the Error; NoError for null
    lastStatus,    \* proxy.ts:233
    response,      \* the upstream Response of the attempt under way
    res,           \* the ServerResponse towards the caller
    attempts,      \* models of the forwardToOpenRouter calls issued so far
    payloads,      \* the payload of each of these calls (proxy.ts:132, 146)
    hist,          \* per attempt, what the upstream did (observation only)
    \* ---- routeWithAI of src/src/router/ai-router.ts and the handler of
    \* ---- src/unnamed/part_002 that calls it, concurrent requests ---------
    turnCache,     \* the Map of ai-router.ts:74
    now,           \* Date.now()
    config,        \* the AIRoutingConfig passed to routeWithAI
    writes,        \* observation only: per key, its writes and live periods
    rq,            \* per request: where its handler is suspended, its locals
    \* ---- what arrives from outside ---------------------------------------
    request,       \* the HTTP request served by startProxy (proxy.ts:327)
    answer,        \* the content of an oracle answer under validation
    server,        \* the http.Server of startProxy (proxy.ts:327, 371-386)
    probe          \* arguments and result of a function applied on its own

proxyVars == <<modelsToTry, stream, i, pc, lastError, lastStatus, response,
               res, attempts, payloads, hist>>

routeVars == <<turnCache, writes, now, config, rq>>

inputVars == <<request, answer, server, probe>>

vars == <<proxyVars, routeVars, inputVars>>

----------------------------------------------------------------------------
\* Bounds of the model.

\* longest chain handed to the fallback loop
MaxChain == 3

\* chunks of a streamed upstream body
MaxChunks == 2

\* the clock runs from 0 to MaxNow
MaxNow == 2

\* config.cacheTtlMs ranges over 0..MaxTtl
MaxTtl == 1

----------------------------------------------------------------------------
\* Data of the fallback loop.

NoError == "<null>"
\* chunks: what the body stream has handed over so far; ended: the stream is
\* over; cancelled: the proxy has given the upstream request up
NoResponse == [status |-> 0, text |-> "", hasBody |-> FALSE, model |-> "",
               chunks |-> <<>>, ended |-> FALSE, cancelled |-> FALSE]

\* the models a chain is cut from; only their identity matters to the loop
ChainPool == <<"m1", "m2", "m3", "m4", "m5">>

\* proxy.ts:255
RetryableStatuses == {429, 502, 503, 504}

\* statuses the upstream answers with: success, two non-retryable failures,
\* the four retryable ones
OkStatuses == {200}
FatalStatuses == {401, 500}
UpstreamStatuses == OkStatuses \cup FatalStatuses \cup RetryableStatuses

\* Response.ok
ResponseOk(status) == status >= 200 /\ status <= 299

\* bodies of a failure response: empty, not JSON, JSON with error.message
JsonErrorText == "{error:{message:quota}}"
ErrorTexts == {"", "upstream down", JsonErrorText}

\* the body of the success response of a model, and the chunks of its stream
OkText(model) == "completion of " \o model
OkChunks(model) == [k \in 1..MaxChunks |-> model \o "#" \o ToString(k)]
OkHeaders(model) == "headers of " \o model
JsonHeaders == "Content-Type: application/json"

\* JSON.parse(text) of proxy.ts:248: does it parse, and errBody.error.message
JsonParses(text) == text = JsonErrorText
ParsedMessage(text) == "quota"

\* JSON.stringify of an error envelope
StringifyError(message, type) ==
    "{error:{message:" \o message \o
        (IF type = "" THEN "" ELSE ",type:" \o type) \o "}}"

\* proxy.ts:246-254: the message of lastError built from a failure response
\* (errBody is {error:{message:text}} when text does not parse)
OpenRouterErrorMessage(status, text) ==
    "OpenRouter error (" \o ToString(status) \o "): " \o
        (IF JsonParses(text) THEN ParsedMessage(text) ELSE text)

\* proxy.ts:258: text || JSON.stringify(errBody)
RelayedErrorBody(text) ==
    IF text # "" THEN text
    ELSE StringifyError(IF JsonParses(text) THEN ParsedMessage(text) ELSE text, "")

\* the retryable list with 504 forgotten
IsRetryable_No504(status) == status \in {429, 502, 503}

\* proxy.ts:255
IsRetryable(status) == status \in RetryableStatuses

\* messages of the exceptions the platform throws
FetchFailed == "fetch failed"
BodyTerminated == "terminated"
HeadersSent == "ERR_HTTP_HEADERS_SENT"

FreshRes == [headSent |-> FALSE, status |-> 0, headers |-> "",
             body |-> <<>>, ends |-> 0]

\* ServerResponse.writeHead on a response whose head is not sent yet
WriteHead(r, status, headers) ==
    [r EXCEPT !.headSent = TRUE, !.status = status, !.headers = headers]

\* ServerResponse.end(text)
End(r, text) == [r EXCEPT !.body = Append(r.body, text), !.ends = @ + 1]

----------------------------------------------------------------------------
\* The fallback loop, proxy.ts:232-287.

\* what the upstream did to the attempt under way (observation only)
Seen(status, text, outcome) ==
    [model |-> modelsToTry[i], status |-> status, text |-> text, outcome |-> outcome]

\* the payload without the caller's max_tokens
Payload_NoMaxTokens(body, model) ==
    [messages |-> body.messages, items |-> body.items, max_tokens |-> 0,
     stream |-> body.stream, model |-> model]

\* proxy.ts:132: { ...body, model }, the parsed body with model replaced (or
\* added); JSON.stringify of proxy.ts:146 writes every field of it
Payload(body, model) ==
    [messages |-> body.messages, items |-> body.items,
     max_tokens |-> body.max_tokens, stream |-> body.stream, model |-> model]

\* an attempt issued against the first chain entry whatever the index
Forward_First(k) ==
    /\ i' = k
    /\ attempts' = Append(attempts, modelsToTry[1])
    /\ payloads' = Append(payloads, Payload(request.body, modelsToTry[1]))
    /\ response' = NoResponse
    /\ pc' = "awaitFetch"

\* proxy.ts:241: forwardToOpenRouter(body, model, apiKey, stream) is issued
Forward(k) ==
    /\ i' = k
    /\ attempts' = Append(attempts, modelsToTry[k])
    /\ payloads' = Append(payloads, Payload(request.body, modelsToTry[k]))
    /\ response' = NoResponse
    /\ pc' = "awaitFetch"

\* proxy.ts:278-286: the loop is over, the internal_error envelope is written;
\* writeHead throws when the head is sent already, and the handler rejects
Exhausted(status, error) ==
    /\ UNCHANGED <<i, attempts, payloads, response>>
    /\ IF res.headSent
       THEN /\ pc' = "rejected"
            /\ res' = res
       ELSE /\ pc' = "done"
            /\ res' = End(WriteHead(res, status, JsonHeaders),
                          StringifyError(IF error = NoError
                                         THEN "All fallback models failed"
                                         ELSE error, "internal_error"))

\* proxy.ts:235: the next iteration of the loop (after continue, or after the
\* catch of proxy.ts:273), with the values of lastStatus and lastError it leaves
NextIteration(status, error) ==
    /\ lastStatus' = status
    /\ lastError' = error
    /\ IF i < Len(modelsToTry)
       THEN Forward(i + 1) /\ res' = res
       ELSE Exhausted(status, error)

\* proxy.ts:235-241: the loop starts with the first chain entry
BeginLoop ==
    /\ UNCHANGED <<routeVars, inputVars>>
    /\ pc = "chainBuilt"
    /\ Forward(1)
    /\ hist' = hist
    /\ UNCHANGED <<modelsToTry, stream, lastError, lastStatus, res>>

\* proxy.ts:241, 273-275: forwardToOpenRouter throws (transport failure)
FetchThrows ==
    /\ UNCHANGED <<routeVars, inputVars>>
    /\ pc = "awaitFetch"
    /\ hist' = Append(hist, Seen(0, "", "fetchThrew"))
    /\ NextIteration(lastStatus, FetchFailed)
    /\ UNCHANGED <<modelsToTry, stream>>

\* proxy.ts:243-245: the upstream answers with a failure status; the handler
\* records the status and awaits the body
FetchNotOk ==
    /\ UNCHANGED <<routeVars, inputVars>>
    /\ pc = "awaitFetch"
    /\ \E status \in UpstreamStatuses, text \in ErrorTexts :
          /\ ~ResponseOk(status)
          /\ response' = [NoResponse EXCEPT !.status = status, !.text = text,
                                             !.hasBody = TRUE,
                                             !.model = modelsToTry[i]]
          /\ lastStatus' = status
    /\ pc' = "awaitErrText"
    /\ UNCHANGED <<modelsToTry, stream, i, lastError, res, attempts, payloads, hist>>

\* proxy.ts:245, 273-275: reading the failure body throws
ErrTextThrows ==
    /\ UNCHANGED <<routeVars, inputVars>>
    /\ pc = "awaitErrText"
    /\ hist' = Append(hist, Seen(response.status, "", "errTextThrew"))
    /\ NextIteration(lastStatus, BodyTerminated)
    /\ UNCHANGED <<modelsToTry, stream>>

\* proxy.ts:245-261: the failure body is read
ErrTextRead ==
    /\ UNCHANGED <<routeVars, inputVars>>
    /\ pc = "awaitErrText"
    /\ hist' = Append(hist, Seen(response.status, "", "failure"))
    /\ LET error == OpenRouterErrorMessage(response.status, response.text) IN
       IF IsRetryable(response.status)
       THEN NextIteration(lastStatus, error)
       ELSE IF res.headSent
            THEN \* writeHead of proxy.ts:257 throws into the catch
                 NextIteration(lastStatus, HeadersSent)
            ELSE /\ res' = End(WriteHead(res, response.status, JsonHeaders),
                               RelayedErrorBody(response.text))
                 /\ pc' = "done"
                 /\ lastError' = error
                 /\ UNCHANGED <<lastStatus, i, attempts, payloads, response>>
    /\ UNCHANGED <<modelsToTry, stream>>

\* proxy.ts:264-272: the upstream answers with success
FetchOk ==
    /\ UNCHANGED <<routeVars, inputVars>>
    /\ pc = "awaitFetch"
    /\ \E status \in OkStatuses, hasBody \in BOOLEAN :
        LET model == modelsToTry[i]
            resp == [NoResponse EXCEPT
                       !.status = status,
                       !.text = IF hasBody THEN OkText(model) ELSE "",
                       !.hasBody = hasBody, !.model = model]
        IN
        IF res.headSent
        THEN \* writeHead of proxy.ts:264 throws into the catch
             /\ hist' = Append(hist, Seen(status, resp.text, "okHeadThrew"))
             /\ NextIteration(lastStatus, HeadersSent)
        ELSE /\ res' = WriteHead(res, status, OkHeaders(model))
             /\ response' = resp
             /\ pc' = IF stream /\ hasBody THEN "piping" ELSE "awaitOkText"
             /\ hist' = hist
             /\ UNCHANGED <<lastStatus, lastError, i, attempts, payloads>>
    /\ UNCHANGED <<modelsToTry, stream>>

\* proxy.ts:269-270: the success body is read and sent
OkTextRead ==
    /\ UNCHANGED <<routeVars, inputVars>>
    /\ pc = "awaitOkText"
    /\ res' = End(res, response.text)
    /\ pc' = "done"
    /\ hist' = Append(hist, Seen(response.status, response.text, "success"))
    /\ UNCHANGED <<modelsToTry, stream, i, lastError, lastStatus, response, attempts, payloads>>

\* proxy.ts:269, 273-275: reading the success body throws, after the head of
\* proxy.ts:264 was written
OkTextThrows ==
    /\ UNCHANGED <<routeVars, inputVars>>
    /\ pc = "awaitOkText"
    /\ response.hasBody
    /\ hist' = Append(hist, Seen(response.status, response.text, "okTextThrew"))
    /\ NextIteration(lastStatus, BodyTerminated)
    /\ UNCHANGED <<modelsToTry, stream>>

\* proxy.ts:266: the upstream sends the next chunk of the body; it waits in
\* nodeStream until the pipe hands it on
UpstreamChunk ==
    /\ UNCHANGED <<routeVars, inputVars>>
    /\ pc \in {"piping", "unpiped"}
    /\ ~response.ended /\ ~response.cancelled
    /\ Len(response.chunks) < MaxChunks
    /\ response' = [response EXCEPT
                      !.chunks = Append(@, OkChunks(response.model)[Len(@) + 1])]
    /\ UNCHANGED <<modelsToTry, stream, i, pc, lastError, lastStatus, res,
                   attempts, payloads, hist>>

\* proxy.ts:266: the upstream ends the body
UpstreamEnds ==
    /\ UNCHANGED <<routeVars, inputVars>>
    /\ pc \in {"piping", "unpiped"}
    /\ ~response.ended /\ ~response.cancelled
    /\ response' = [response EXCEPT !.ended = TRUE]
    /\ UNCHANGED <<modelsToTry, stream, i, pc, lastError, lastStatus, res,
                   attempts, payloads, hist>>

\* a pipe that hands on the chunk that arrived last
PipeChunk_Latest ==
    /\ UNCHANGED <<routeVars, inputVars>>
    /\ pc = "piping"
    /\ Len(res.body) < Len(response.chunks)
    /\ res' = [res EXCEPT !.body = Append(@, response.chunks[Len(response.chunks)])]
    /\ UNCHANGED <<modelsToTry, stream, i, pc, lastError, lastStatus, response,
                   attempts, payloads, hist>>

\* proxy.ts:266-267: nodeStream.pipe(res) hands the oldest waiting chunk on
PipeChunk ==
    /\ UNCHANGED <<routeVars, inputVars>>
    /\ pc = "piping"
    /\ Len(res.body) < Len(response.chunks)
    /\ res' = [res EXCEPT !.body = Append(@, response.chunks[Len(@) + 1])]
    /\ UNCHANGED <<modelsToTry, stream, i, pc, lastError, lastStatus, response,
                   attempts, payloads, hist>>

\* proxy.ts:267: the body is over and every chunk was handed on; pipe ends
\* the response
PipeEnd ==
    /\ UNCHANGED <<routeVars, inputVars>>
    /\ pc = "piping"
    /\ response.ended /\ Len(res.body) = Len(response.chunks)
    /\ res' = [res EXCEPT !.ends = @ + 1]
    /\ pc' = "done"
    /\ hist' = Append(hist, Seen(response.status, response.text, "streamed"))
    /\ UNCHANGED <<modelsToTry, stream, i, lastError, lastStatus, response, attempts, payloads>>

\* proxy.ts:267: the caller disconnects while the pipe runs; res closes and
\* pipe detaches nodeStream from it. Nothing else listens to the close of req
\* or res, and the fetch of proxy.ts:140-149 was given no signal: the
\* upstream request stays as it is
CallerDisconnects ==
    /\ UNCHANGED <<routeVars, inputVars>>
    /\ pc = "piping"
    /\ pc' = "unpiped"
    /\ UNCHANGED <<modelsToTry, stream, i, lastError, lastStatus, response, res,
                   attempts, payloads, hist>>

ProxyInit ==
    /\ modelsToTry \in {SubSeq(ChainPool, 1, n) : n \in 1..MaxChain}
    /\ stream \in BOOLEAN
    /\ i = 0
    /\ pc = "chainBuilt"
    /\ lastError = NoError
    /\ lastStatus = 500
    /\ response = NoResponse
    /\ res = FreshRes
    /\ attempts = <<>> /\ payloads = <<>>
    /\ hist = <<>>

ProxyNext ==
    \/ BeginLoop
    \/ FetchThrows
    \/ FetchNotOk
    \/ ErrTextThrows
    \/ ErrTextRead
    \/ FetchOk
    \/ OkTextRead
    \/ OkTextThrows
    \/ UpstreamChunk
    \/ UpstreamEnds
    \/ PipeChunk
    \/ PipeEnd
    \/ CallerDisconnects

----------------------------------------------------------------------------
\* Model names and alias resolution, models.ts:25-63.

\* A model name as a client writes it: its lower-case text without the
\* "clawd-router/" prefix, whether it is written in capitals, whether it is
\* wrapped in white space, whether it carries the prefix.
Name(core) == [core |-> core, caps |-> FALSE, pad |-> FALSE, prefixed |-> FALSE]
InCapitals(name) == [name EXCEPT !.caps = TRUE]
Padded(name) == [name EXCEPT !.pad = TRUE]
Prefixed(name) == [name EXCEPT !.prefixed = TRUE]

\* String.prototype.trim and String.prototype.toLowerCase on a name
TrimName(name) == [name EXCEPT !.pad = FALSE]
ToLowerCase(name) == [name EXCEPT !.caps = FALSE]

\* the characters of a name (capitals shown for the names in use)
Capitals(core) ==
    CASE core = "auto" -> "AUTO"
      [] core = "eco" -> "ECO"
      [] core = "router" -> "ROUTER"
      [] core = "claude" -> "CLAUDE"
      [] core = "openai/gpt-4o" -> "OPENAI/GPT-4O"
      [] OTHER -> core
Written(name) ==
    LET text == (IF name.prefixed THEN "clawd-router/" ELSE "") \o name.core
        cased == IF name.caps
                 THEN (IF name.prefixed THEN "CLAWD-ROUTER/" ELSE "") \o Capitals(name.core)
                 ELSE text
    IN IF name.pad THEN " " \o cased \o " " ELSE cased

\* models.ts:25-44, the entries the requests in use touch
MODEL_ALIASES ==
    [alias \in {"claude", "flash", "deepseek", "auto-router", "router", "eco"} |->
        CASE alias = "claude" -> "anthropic/claude-sonnet-4-5"
          [] alias = "flash" -> "google/gemini-2.5-flash"
          [] alias = "deepseek" -> "deepseek/deepseek-chat"
          [] alias = "auto-router" -> "auto"
          [] alias = "router" -> "auto"
          [] alias = "eco" -> "eco"]

\* MODEL_ALIASES is an object literal: a lower-case key it does not define
\* itself is looked up in Object.prototype, where it finds a function or an
\* object, not a string
ObjectPrototype ==
    [key \in {"constructor", "__proto__"} |->
        IF key = "constructor" THEN "function Object()" ELSE "Object.prototype"]
Undefined == Name("undefined of JavaScript")
NotAString(name) == name.core \in {ObjectPrototype[key] : key \in DOMAIN ObjectPrototype}

\* models.ts:52, 57: MODEL_ALIASES[key]
AliasOf(name) ==
    IF name.prefixed THEN Undefined
    ELSE IF name.core \in DOMAIN MODEL_ALIASES THEN Name(MODEL_ALIASES[name.core])
    ELSE IF name.core \in DOMAIN ObjectPrototype THEN Name(ObjectPrototype[name.core])
    ELSE Undefined

\* models.ts:50-63
resolveModelAlias(model) ==
    LET normalized == ToLowerCase(TrimName(model))
        resolved == AliasOf(normalized)
        withoutPrefix == [normalized EXCEPT !.prefixed = FALSE]
        resolvedWithoutPrefix == AliasOf(withoutPrefix)
    IN IF resolved # Undefined THEN resolved
       ELSE IF normalized.prefixed
            THEN IF resolvedWithoutPrefix # Undefined THEN resolvedWithoutPrefix
                 ELSE withoutPrefix
            ELSE model

----------------------------------------------------------------------------
\* The routing agent and its turn cache, ai-router.ts:74-168, called through
\* route (part_004:12-33) and selectTargetModel (part_002:105-125) by the
\* handler of part_002:130-216.

\* two chat-completions requests run concurrently
Requests == {"r1", "r2"}

\* ids of OPENROUTER_MODELS (models.ts:65-260): the two sentinels and two
\* backend models
OPENROUTER_MODELS == <<"auto", "eco", "google/gemini-2.5-flash", "deepseek/deepseek-chat">>

\* conversations a request carries
UserHi == [role |-> "user", content |-> <<"hi">>]
AssistantHello == [role |-> "assistant", content |-> <<"hello">>]
UserProve == [role |-> "user", content |-> <<"prove", " ", "it">>]
Conversations ==
    { <<UserHi>>, <<UserHi, AssistantHello>>, <<UserHi, AssistantHello, UserProve>> }

\* the content of a message is a text in pieces: a quotation mark, a
\* backslash, a line break or a run of other characters
Quote == "\""
Backslash == "\\"

\* JSON.stringify of a string: the pieces that need it are escaped, the
\* text is put in quotation marks
RECURSIVE Escaped(_)
Escaped(text) ==
    IF text = <<>> THEN ""
    ELSE (CASE Head(text) = Quote -> "\\\""
            [] Head(text) = Backslash -> "\\\\"
            [] Head(text) = "\n" -> "\\n"
            [] OTHER -> Head(text)) \o Escaped(Tail(text))
JsonString(text) == Quote \o Escaped(text) \o Quote

\* JSON.stringify of a message {role, content}
JsonMessage(m) ==
    "{\"role\":\"" \o m.role \o "\",\"content\":" \o JsonString(m.content) \o "}"

\* JSON.stringify of an array of messages
RECURSIVE JsonItems(_)
JsonItems(list) ==
    IF list = <<>> THEN ""
    ELSE JsonMessage(Head(list)) \o (IF Len(list) = 1 THEN "" ELSE ",") \o
         JsonItems(Tail(list))
JsonStringify(list) == "[" \o JsonItems(list) \o "]"

\* createHash("sha256").update(json).digest("hex") of ai-router.ts:86, taken
\* as collision-free: the digest stands for the text it was computed from
Sha256Hex(json) == <<"sha256", json>>

\* the key of the prefix that ends at the first user message
computeCacheKey_FirstUser(messages) ==
    LET users == {k \in 1..Len(messages) : messages[k].role = "user"}
        firstUserIdx == IF users = {} THEN 0
                        ELSE CHOOSE k \in users : \A j \in users : k <= j
    IN Sha256Hex(JsonStringify(IF firstUserIdx >= 1
                               THEN SubSeq(messages, 1, firstUserIdx)
                               ELSE messages))

\* ai-router.ts:76-87
computeCacheKey(messages) ==
    LET users == {k \in 1..Len(messages) : messages[k].role = "user"}
        lastUserIdx == IF users = {} THEN 0
                       ELSE CHOOSE k \in users : \A j \in users : j <= k
        slice == IF lastUserIdx >= 1 THEN SubSeq(messages, 1, lastUserIdx)
                 ELSE messages
    IN Sha256Hex(JsonStringify(slice))

\* turnCache.get(cacheKey) is defined
CacheHas(cache, cacheKey) == cacheKey \in DOMAIN cache

\* the expiry comparison turned around
EntryLive_Inverted(entry, t) == entry.expiresAt < t

\* the expiry comparison with the boundary instant counted as live
EntryLive_Inclusive(entry, t) == entry.expiresAt >= t

\* ai-router.ts:104: entry.expiresAt > Date.now()
EntryLive(entry, t) == entry.expiresAt > t

\* ai-router.ts:103-104: entry && entry.expiresAt > Date.now()
CacheHit(cache, cacheKey, t) ==
    CacheHas(cache, cacheKey) /\ EntryLive(cache[cacheKey], t)

\* the entry written with the routing agent's own model (config.model)
\* instead of the answer
NewEntry_RouterModel(rawValue, t, cfg) ==
    [modelId |-> "google/gemini-2.5-flash", expiresAt |-> t + cfg.cacheTtlMs]

\* ai-router.ts:160-163: the entry written for a validated answer
NewEntry(rawValue, t, cfg) ==
    [modelId |-> rawValue, expiresAt |-> t + cfg.cacheTtlMs]

\* a set that drops every other key
CacheSet_Alone(cache, cacheKey, entry) == [k \in {cacheKey} |-> entry]

\* a set that keeps the entry a key already has
CacheSet_KeepFirst(cache, cacheKey, entry) ==
    [k \in DOMAIN cache \cup {cacheKey} |->
        IF k \in DOMAIN cache THEN cache[k] ELSE entry]

\* Map.set
CacheSet(cache, cacheKey, entry) ==
    [k \in DOMAIN cache \cup {cacheKey} |->
        IF k = cacheKey THEN entry ELSE cache[k]]

\* choices[0].message.content is a text: a sequence of pieces, each a blank,
\* a line break or a word (a run of characters without white space)
Blank == " "
LineBreak == "\n"
IsSpace(piece) == piece \in {Blank, LineBreak}

\* String.prototype.trim: white space is cut off at both ends
Trim(text) ==
    LET inked == {k \in 1..Len(text) : ~IsSpace(text[k])}
    IN IF inked = {} THEN <<>>
       ELSE SubSeq(text, CHOOSE a \in inked : \A k \in inked : a <= k,
                         CHOOSE b \in inked : \A k \in inked : k <= b)

\* text.split("\n")[0]: what stands before the first line break
FirstLine(text) ==
    LET breaks == {k \in 1..Len(text) : text[k] = LineBreak}
    IN IF breaks = {} THEN text
       ELSE SubSeq(text, 1, (CHOOSE b \in breaks : \A k \in breaks : b <= k) - 1)

\* the string the pieces spell
RECURSIVE Spell(_)
Spell(text) == IF text = <<>> THEN "" ELSE Head(text) \o Spell(Tail(text))

\* what the oracle puts into choices[0].message.content (empty when the
\* field is missing, ai-router.ts:151): a bare id, an id wrapped in white
\* space with a second line, an id followed by a remark, nothing
OracleContents ==
    { <<"google/gemini-2.5-flash">>, <<"deepseek/deepseek-chat">>, <<"auto">>,
      <<"openai/gpt-9">>, <<>>,
      <<Blank, LineBreak, "deepseek/deepseek-chat", Blank, LineBreak, "auto">>,
      <<"google/gemini-2.5-flash", Blank, "auto">> }

\* ai-router.ts:151-154: content.trim().split("\n")[0].trim()
RawValue(content) == Spell(Trim(FirstLine(Trim(content))))

\* the membership test without m.id !== "auto"
IsValid_AllowsAuto(rawValue) ==
    \E k \in 1..Len(OPENROUTER_MODELS) : OPENROUTER_MODELS[k] = rawValue

\* ai-router.ts:156-158
IsValid(rawValue) ==
    \E k \in 1..Len(OPENROUTER_MODELS) :
        OPENROUTER_MODELS[k] = rawValue /\ OPENROUTER_MODELS[k] # "auto"

NoOut == [status |-> 0, type |-> "", ends |-> 0]

IdleRequest ==
    [pc |-> "idle", requested |-> "", messages |-> <<>>, cacheKey |-> <<>>, model |-> "",
     error |-> "", oracleCalls |-> 0, forwards |-> 0, upstream |-> 0,
     out |-> NoOut, lookup |-> "", writeNo |-> 0, livePeriod |-> 0,
     previousModel |-> "", previousLookup |-> ""]

\* observation only: the number of the last write of a key, and the number
\* of times its entry came to life after being absent or dead
NoWrites == [writeNo |-> 0, livePeriod |-> 0]
WritesOf(cacheKey) == IF cacheKey \in DOMAIN writes THEN writes[cacheKey] ELSE NoWrites

\* observation only: what turnCache.get found when the request looked
Lookup(cache, cacheKey, t) ==
    IF cacheKey \notin DOMAIN cache THEN "absent"
    ELSE IF cache[cacheKey].expiresAt > t THEN "live"
    ELSE IF cache[cacheKey].expiresAt = t THEN "expires now"
    ELSE "expired"

\* observation only: a request took its decision under this entry
Observed(req, cacheKey, cache, log, t) ==
    [req EXCEPT !.writeNo = IF cacheKey \in DOMAIN log THEN log[cacheKey].writeNo ELSE 0,
                !.livePeriod = IF CacheHas(cache, cacheKey) /\ cache[cacheKey].expiresAt > t
                               THEN log[cacheKey].livePeriod ELSE 0]

\* part_002:161-182: selectTargetModel returned, forwardToOpenRouter is issued
Routed(r, req, model) ==
    [req EXCEPT !.pc = "awaitUpstream", !.model = model, !.forwards = @ + 1]

\* a routing failure answered by falling back to a default model and
\* forwarding the request
RoutingFailed_FallsBack(req) ==
    [req EXCEPT !.pc = "awaitUpstream", !.error = "RoutingError",
                !.model = "google/gemini-2.5-flash", !.forwards = @ + 1]

\* part_002:168-177: RoutingError is caught, 500/routing_error is sent
RoutingFailed(req) ==
    [req EXCEPT !.pc = "done", !.error = "RoutingError",
                !.out = [status |-> 500, type |-> "routing_error", ends |-> 1]]

\* part_002:178: any other error is rethrown and the handler rejects
Rethrown(req, error) == [req EXCEPT !.pc = "rejected", !.error = error]

\* body.model of the requests: a sentinel, an alias of a backend model, a
\* key of Object.prototype
RouteRequested == {Name("auto"), Name("claude"), Name("constructor")}

\* part_002:111-113: the resolved name, lower-cased, is "auto" or "router"
RoutesByAI(requestedModel) ==
    ToLowerCase(resolveModelAlias(requestedModel)) \in {Name("auto"), Name("router")}

\* part_003:257-261: the key of the previous turn, the messages without the
\* last two; the empty set stands for null
computePreviousTurnKey(messages) ==
    IF Len(messages) < 2 THEN {}
    ELSE {computeCacheKey(SubSeq(messages, 1, Len(messages) - 2))}

\* part_003:282-286: previousModel, the model of the entry under the key of
\* the previous turn, "" for null; previousLookup observes the state of
\* that entry at the moment it is read
WithPreviousModel(req, cache, t) ==
    LET found == {k \in computePreviousTurnKey(req.messages) : CacheHas(cache, k)}
    IN IF found = {} THEN req
       ELSE LET previousTurnKey == CHOOSE k \in found : TRUE
            IN [req EXCEPT !.previousModel = cache[previousTurnKey].modelId,
                           !.previousLookup = Lookup(cache, previousTurnKey, t)]

\* a lookup that missed joins the oracle call another request has in flight
\* for the same key instead of issuing its own
CallOracle_Joined(req) ==
    IF \E o \in Requests :
          /\ rq[o].cacheKey = req.cacheKey
          /\ rq[o].pc \in {"awaitOracle", "awaitOracleText", "awaitOracleJson"}
    THEN [req EXCEPT !.pc = "joined"]
    ELSE [req EXCEPT !.pc = "awaitOracle", !.oracleCalls = @ + 1]

\* ai-router.ts:108-134: the lookup missed, the oracle call is issued
CallOracle(req) == [req EXCEPT !.pc = "awaitOracle", !.oracleCalls = @ + 1]

\* part_002:135-167, 111-120, part_004:19, ai-router.ts:102-134: a request
\* for model "auto" arrives; routeWithAI answers from the cache or calls the
\* oracle
HandleAuto(r) ==
    /\ UNCHANGED <<proxyVars, inputVars>>
    /\ rq[r].pc = "idle"
    /\ \E requestedModel \in RouteRequested, messages \in Conversations :
        LET cacheKey == computeCacheKey(messages)
            req == [rq[r] EXCEPT !.requested = Written(requestedModel),
                                 !.messages = messages, !.cacheKey = cacheKey,
                                 !.lookup = Lookup(turnCache, cacheKey, now)]
        IN /\ ~NotAString(resolveModelAlias(requestedModel))
           /\ RoutesByAI(requestedModel)
           /\ rq' = [rq EXCEPT ![r] =
                    IF CacheHit(turnCache, cacheKey, now)
                    THEN Observed(Routed(r, req, turnCache[cacheKey].modelId),
                                  cacheKey, turnCache, writes, now)
                    ELSE CallOracle(WithPreviousModel(req, turnCache, now))]
    /\ UNCHANGED <<turnCache, writes, now, config>>

\* part_002:135-167, 111-124, 182: a request for a model that is not routed;
\* selectTargetModel returns the resolved name without calling route, or
\* toLowerCase throws on a value that is not a string and the catch of
\* part_002:168-178 rethrows
HandleDirect(r) ==
    /\ UNCHANGED <<proxyVars, inputVars>>
    /\ rq[r].pc = "idle"
    /\ \E requestedModel \in RouteRequested, messages \in Conversations :
        LET req == [rq[r] EXCEPT !.requested = Written(requestedModel),
                                 !.messages = messages]
        IN IF NotAString(resolveModelAlias(requestedModel))
           THEN rq' = [rq EXCEPT ![r] = Rethrown(req, "TypeError")]
           ELSE /\ ~RoutesByAI(requestedModel)
                /\ rq' = [rq EXCEPT ![r] =
                            Routed(r, req, Written(resolveModelAlias(requestedModel)))]
    /\ UNCHANGED <<turnCache, writes, now, config>>

\* ai-router.ts:135-139: fetchWithRetry throws
OracleThrows(r) ==
    /\ UNCHANGED <<proxyVars, inputVars>>
    /\ rq[r].pc = "awaitOracle"
    /\ rq' = [rq EXCEPT ![r] = RoutingFailed(@)]
    /\ UNCHANGED <<turnCache, writes, now, config>>

\* ai-router.ts:141-142: the oracle answers with a failure status and the
\* body is awaited
OracleNotOk(r) ==
    /\ UNCHANGED <<proxyVars, inputVars>>
    /\ rq[r].pc = "awaitOracle"
    /\ rq' = [rq EXCEPT ![r].pc = "awaitOracleText"]
    /\ UNCHANGED <<turnCache, writes, now, config>>

\* ai-router.ts:142-145: the failure body is read, RoutingError is thrown
OracleTextRead(r) ==
    /\ UNCHANGED <<proxyVars, inputVars>>
    /\ rq[r].pc = "awaitOracleText"
    /\ rq' = [rq EXCEPT ![r] = RoutingFailed(@)]
    /\ UNCHANGED <<turnCache, writes, now, config>>

\* ai-router.ts:142: reading the failure body throws, outside any try
OracleTextThrows(r) ==
    /\ UNCHANGED <<proxyVars, inputVars>>
    /\ rq[r].pc = "awaitOracleText"
    /\ rq' = [rq EXCEPT ![r] = Rethrown(@, "TypeError")]
    /\ UNCHANGED <<turnCache, writes, now, config>>

\* ai-router.ts:148: the oracle answers with success and the JSON body is
\* awaited
OracleOk(r) ==
    /\ UNCHANGED <<proxyVars, inputVars>>
    /\ rq[r].pc = "awaitOracle"
    /\ rq' = [rq EXCEPT ![r].pc = "awaitOracleJson"]
    /\ UNCHANGED <<turnCache, writes, now, config>>

\* ai-router.ts:148: response.json() throws (broken or non-JSON body),
\* outside any try
OracleJsonThrows(r) ==
    /\ UNCHANGED <<proxyVars, inputVars>>
    /\ rq[r].pc = "awaitOracleJson"
    /\ rq' = [rq EXCEPT ![r] = Rethrown(@, "SyntaxError")]
    /\ UNCHANGED <<turnCache, writes, now, config>>

\* ai-router.ts:148-167: the answer is parsed and validated; a valid id is
\* cached and returned, anything else is a RoutingError
AnswerWith(r, content) ==
    /\ UNCHANGED <<proxyVars, inputVars>>
    /\ rq[r].pc = "awaitOracleJson"
    /\ LET rawValue == RawValue(content)
            cacheKey == rq[r].cacheKey
            cache == CacheSet(turnCache, cacheKey, NewEntry(rawValue, now, config))
            log == [k \in DOMAIN writes \cup {cacheKey} |->
                      IF k # cacheKey THEN writes[k]
                      ELSE [writeNo |-> WritesOf(k).writeNo + 1,
                            livePeriod |-> IF CacheHit(turnCache, k, now)
                                           THEN WritesOf(k).livePeriod
                                           ELSE WritesOf(k).livePeriod + 1]]
        IN IF IsValid(rawValue)
           THEN /\ turnCache' = cache
                /\ writes' = log
                /\ rq' = [rq EXCEPT ![r] =
                            Observed(Routed(r, @, rawValue), cacheKey, cache, log, now)]
           ELSE /\ rq' = [rq EXCEPT ![r] = RoutingFailed(@)]
                /\ UNCHANGED <<turnCache, writes>>
    /\ UNCHANGED <<now, config>>

\* ai-router.ts:148: response.json() resolves with the oracle's answer
OracleAnswers(r) == \E content \in OracleContents : AnswerWith(r, content)

\* part_002:182-185: the upstream answers the single attempt with a failure
\* status and the body is awaited
UpstreamNotOk(r) ==
    /\ UNCHANGED <<proxyVars, inputVars>>
    /\ rq[r].pc = "awaitUpstream"
    /\ rq' = [rq EXCEPT ![r].pc = "awaitFailureText", ![r].upstream = 401]
    /\ UNCHANGED <<turnCache, writes, now, config>>

\* part_002:185-194: the failure body is read and relayed with its status
FailureTextRead(r) ==
    /\ UNCHANGED <<proxyVars, inputVars>>
    /\ rq[r].pc = "awaitFailureText"
    /\ rq' = [rq EXCEPT ![r].pc = "done",
                        ![r].out = [status |-> rq[r].upstream, type |-> "", ends |-> 1]]
    /\ UNCHANGED <<turnCache, writes, now, config>>

\* part_002:182, 185, 205-215: forwardToOpenRouter or the read of the failure
\* body throws; the catch answers 500/internal_error
UpstreamThrows(r) ==
    /\ UNCHANGED <<proxyVars, inputVars>>
    /\ rq[r].pc \in {"awaitUpstream", "awaitFailureText"}
    /\ rq' = [rq EXCEPT ![r].pc = "done",
                        ![r].out = [status |-> 500, type |-> "internal_error", ends |-> 1]]
    /\ UNCHANGED <<turnCache, writes, now, config>>

\* part_002:197-202: the upstream answers with success, the head is written
\* and the body is piped (stream requested and a body present) or awaited
UpstreamOk(r) ==
    /\ UNCHANGED <<proxyVars, inputVars>>
    /\ rq[r].pc = "awaitUpstream"
    /\ \E piped \in BOOLEAN :
          rq' = [rq EXCEPT ![r].pc = IF piped THEN "piping" ELSE "awaitSuccessText",
                           ![r].upstream = 200,
                           ![r].out = [status |-> 200, type |-> "", ends |-> 0]]
    /\ UNCHANGED <<turnCache, writes, now, config>>

\* part_002:199-200: the upstream stream ends and pipe ends the response
UpstreamPiped(r) ==
    /\ UNCHANGED <<proxyVars, inputVars>>
    /\ rq[r].pc = "piping"
    /\ rq' = [rq EXCEPT ![r].pc = "done", ![r].out.ends = 1]
    /\ UNCHANGED <<turnCache, writes, now, config>>

\* part_002:202-203: the success body is read and sent
SuccessTextRead(r) ==
    /\ UNCHANGED <<proxyVars, inputVars>>
    /\ rq[r].pc = "awaitSuccessText"
    /\ rq' = [rq EXCEPT ![r].pc = "done", ![r].out.ends = 1]
    /\ UNCHANGED <<turnCache, writes, now, config>>

\* part_002:202, 205-206: the read of the success body throws; writeHead in
\* the catch throws as the head is sent, and the handler rejects
SuccessTextThrows(r) ==
    /\ UNCHANGED <<proxyVars, inputVars>>
    /\ rq[r].pc = "awaitSuccessText"
    /\ rq' = [rq EXCEPT ![r] = Rethrown(@, HeadersSent)]
    /\ UNCHANGED <<turnCache, writes, now, config>>

\* time passes
Tick ==
    /\ UNCHANGED <<proxyVars, inputVars>>
    /\ now < MaxNow
    /\ now' = now + 1
    /\ UNCHANGED <<turnCache, writes, config, rq>>

RouteInit ==
    /\ turnCache = <<>>
    /\ writes = <<>>
    /\ now = 0
    /\ config \in {[cacheTtlMs |-> t] : t \in 0..MaxTtl}
    /\ rq = [r \in Requests |-> IdleRequest]

RouteNext ==
    \/ \E r \in Requests :
          \/ HandleAuto(r)
          \/ HandleDirect(r)
          \/ OracleThrows(r)
          \/ OracleNotOk(r)
          \/ OracleTextRead(r)
          \/ OracleTextThrows(r)
          \/ OracleOk(r)
          \/ OracleJsonThrows(r)
          \/ OracleAnswers(r)
          \/ UpstreamNotOk(r)
          \/ FailureTextRead(r)
          \/ UpstreamThrows(r)
          \/ UpstreamOk(r)
          \/ UpstreamPiped(r)
          \/ SuccessTextRead(r)
          \/ SuccessTextThrows(r)
    \/ Tick

----------------------------------------------------------------------------
\* The listener and the head of handleChatCompletions, proxy.ts:157-230 and
\* 327-360: credential, body, messages, profile, chain.

\* longest candidate list of a tier
MaxTier == 2

\* a field the JSON body does not have
NoName == Name("")
NoBody == [kind |-> "", messages |-> "", items |-> <<>>, hasModel |-> FALSE,
           model |-> NoName, max_tokens |-> 0, stream |-> FALSE]
NoDecision == [model |-> "", tier |-> ""]

\* no request at the listener, no oracle answer under validation
NoRequest == [env |-> {}, option |-> {}, apiKey |-> <<>>, body |-> NoBody,
              decision |-> NoDecision,
              routeCalls |-> 0, profile |-> "", tierList |-> <<>>]

\* the server before listen: no socket, no connection, close never called
NoServer == [listening |-> FALSE, open |-> {}, done |-> {}, refused |-> {},
             closeCalls |-> 0, closeResolved |-> 0, released |-> FALSE,
             atClose |-> {}, exited |-> FALSE,
             starting |-> FALSE, activeProxyHandle |-> FALSE,
             stopping |-> FALSE, stopped |-> 0]

\* no function is being applied
NoProbe == [fn |-> ""]

InputIdle ==
    request = NoRequest /\ answer = <<>> /\ server = NoServer /\ probe = NoProbe

\* process.env.OPENROUTER_API_KEY and options.openRouterApiKey: the set
\* that holds the value, empty for undefined; the value is the empty string,
\* a blank or a key
EnvKeys == { {}, {<<>>}, {<<Blank>>}, {<<"sk-or-1">>} }
OptionKeys == { {}, {<<>>}, {<<"sk-or-2">>} }

\* a ?? b on a left side that is undefined only when it is unset
Coalesce(a, b) == IF a # {} THEN a ELSE b

\* proxy.ts:329 before the trim:
\* process.env.OPENROUTER_API_KEY ?? options.openRouterApiKey ?? ""
ResolveApiKey(env, option) ==
    LET value == Coalesce(Coalesce(env, option), {<<>>})
    IN CHOOSE text \in value : TRUE

\* proxy.ts:329, 346: the trimmed credential is empty
NoApiKey(apiKey) == Spell(Trim(apiKey)) = ""

\* messages of a body, each with its role and the length of its content
OneUser == << [role |-> "user", chars |-> 11] >>
SystemAndUser == << [role |-> "system", chars |-> 400], [role |-> "user", chars |-> 11] >>

\* A JSON object as body: messages is missing, null, a text, or an array.
ObjectBody(messages, items, hasModel, model, max_tokens, streamed) ==
    [kind |-> "object", messages |-> messages, items |-> items,
     hasModel |-> hasModel, model |-> model, max_tokens |-> max_tokens,
     stream |-> streamed]

\* Bodies that are no JSON object: the request stream breaks ("unreadable"),
\* the text is no JSON ("malformed"), is blank, is the JSON null, is a JSON
\* string or number ("primitive").
OtherBody(kind) == [NoBody EXCEPT !.kind = kind]

\* proxy.ts:69-77: readJsonBody throws
ReadJsonBodyThrows(body) == body.kind \in {"unreadable", "malformed"}

\* proxy.ts:173: body.messages throws when the body is null
MessagesThrows(body) == body.kind = "null"

\* proxy.ts:173-174: (body.messages ?? []) is a non-empty array; a blank
\* body is {} (proxy.ts:75), a primitive has no messages property
MessagesOk(body) ==
    body.kind = "object" /\ body.messages = "array" /\ Len(body.items) > 0

\* proxy.ts:184: String(body.model ?? "auto").trim() || "auto"
RequestedModel(body) ==
    LET trimmed == TrimName(IF body.hasModel THEN body.model ELSE Name("auto"))
    IN IF trimmed = NoName THEN Name("auto") ELSE trimmed

\* proxy.ts:185: Number(body.max_tokens ?? 4096) || 4096 (0 stands for a
\* missing max_tokens as well: both give 4096)
MaxOutputTokens(body) == IF body.max_tokens = 0 THEN 4096 ELSE body.max_tokens

\* proxy.ts:190-198: the routing profile; "direct" stands for undefined
RoutingProfile(requestedModel) ==
    LET resolved == ToLowerCase(resolveModelAlias(requestedModel))
    IN IF resolved = Name("auto") \/ resolved = Name("router") THEN "auto"
       ELSE IF resolved = Name("eco") THEN "eco"
       ELSE "direct"

\* proxy.ts:84-108: the lengths of systemPrompt (system contents joined by
\* line breaks) and of prompt (the last user message)
RECURSIVE SystemChars(_)
SystemChars(items) ==
    IF items = <<>> THEN 0
    ELSE LET rest == SystemChars(Tail(items))
         IN IF Head(items).role # "system" THEN rest
            ELSE IF rest = 0 THEN Head(items).chars
            ELSE Head(items).chars + 1 + rest
PromptChars(items) ==
    LET users == {k \in 1..Len(items) : items[k].role = "user"}
    IN IF users = {} THEN 0
       ELSE items[CHOOSE k \in users : \A j \in users : j <= k].chars

\* the estimate without the requested output tokens
EstimatedTotalTokens_InputOnly(items, maxOutputTokens) ==
    ((SystemChars(items) + 1 + PromptChars(items)) + 3) \div 4

\* proxy.ts:215-217: Math.ceil(fullText.length / 4) + maxOutputTokens, with
\* fullText the system prompt, a blank and the prompt
EstimatedTotalTokens(items, maxOutputTokens) ==
    ((SystemChars(items) + 1 + PromptChars(items)) + 3) \div 4 + maxOutputTokens


\* models.ts:71-175: contextWindow of the catalog entries in use
CatalogWindow(id) ==
    CASE id = "auto" -> 1050000
      [] id = "eco" -> 1050000
      [] id = "google/gemini-2.5-flash" -> 1000000
      [] id = "deepseek/deepseek-chat" -> 128000

\* modelId.replace("clawd-router/", "") of models.ts:314, for the ids in use
WithoutRouterPrefix(modelId) ==
    IF modelId = "clawd-router/deepseek/deepseek-chat" THEN "deepseek/deepseek-chat"
    ELSE modelId

\* models.ts:315: OPENROUTER_MODELS.find((m) => m.id === normalized) finds one
InCatalog(id) == \E k \in 1..Len(OPENROUTER_MODELS) : OPENROUTER_MODELS[k] = id

\* models.ts:313-317: the set holding the context window, empty for undefined
getModelContextWindow(modelId) ==
    IF InCatalog(WithoutRouterPrefix(modelId))
    THEN {CatalogWindow(WithoutRouterPrefix(modelId))}
    ELSE {}

\* the tiers of a routing decision
Tiers == {"SIMPLE", "COMPLEX"}

\* getFallbackChainFiltered of router/index.js: the candidates of the tier
\* whose context window is at least the estimated total tokens, in the order
\* of the tier table
FitsContext(modelId, estimatedTotalTokens) ==
    \E window \in getModelContextWindow(modelId) : window >= estimatedTotalTokens
getFallbackChainFiltered(tier, tierConfigs, estimatedTotalTokens) ==
    SelectSeq(tierConfigs[tier], LAMBDA modelId : FitsContext(modelId, estimatedTotalTokens))

\* Array.prototype.includes
Includes(list, x) == \E k \in 1..Len(list) : list[k] = x

\* the chain with the routed model put in front whether the list holds it
\* or not
ModelsToTry_AlwaysPrepends(decisionModel, fallbackChain) ==
    <<decisionModel>> \o fallbackChain

\* proxy.ts:224-226
ModelsToTry(decisionModel, fallbackChain) ==
    IF Includes(fallbackChain, decisionModel) THEN fallbackChain
    ELSE <<decisionModel>> \o fallbackChain

\* proxy.ts:211-214: the tier table of the profile; ecoTiers ?? tiers
NoTiers == [tier \in Tiers |-> <<"undefined of JavaScript">>]
TierConfigs(routingProfile, cfg) ==
    IF routingProfile = "eco" /\ cfg.ecoTiers # NoTiers THEN cfg.ecoTiers ELSE cfg.tiers

\* an error envelope written with its status, proxy.ts:168-169, 175-180,
\* 347-355
InvalidJsonBody == "Invalid JSON body"
MessagesRequired == "messages is required and must be a non-empty array"
ApiKeyRequired == "OpenRouter API key required. Set OPENROUTER_API_KEY."
Refused(r, status, message, type) ==
    End(WriteHead(r, status, JsonHeaders), StringifyError(message, type))

\* proxy.ts:327-358: the listener gets POST /v1/chat/completions; without a
\* credential it answers 400, otherwise handleChatCompletions starts to read
\* the body
Serve ==
    /\ pc = "arrived"
    /\ request' = [request EXCEPT !.apiKey = ResolveApiKey(request.env, request.option)]
    /\ IF NoApiKey(request'.apiKey)
       THEN /\ res' = Refused(res, 400, ApiKeyRequired, "invalid_request")
            /\ pc' = "done"
       ELSE /\ res' = res
            /\ pc' = "readBody"
    /\ UNCHANGED <<modelsToTry, stream, i, lastError, lastStatus, response,
                   attempts, payloads, hist>>
    /\ UNCHANGED <<routeVars, answer, server, probe>>

\* proxy.ts:164-230: the body has arrived (or its stream broke); it is
\* parsed, messages is validated, the profile is chosen and the chain is
\* built; the loop of proxy.ts:235 follows in the same turn (BeginLoop)
HandleBody ==
    /\ pc = "readBody"
    /\ LET body == request.body
           requestedModel == RequestedModel(body)
           routingProfile == RoutingProfile(requestedModel)
           tierConfigs == TierConfigs(routingProfile, config)
           tierList == tierConfigs[request.decision.tier]
           fallbackChain ==
               getFallbackChainFiltered(request.decision.tier, tierConfigs,
                   EstimatedTotalTokens(body.items, MaxOutputTokens(body)))
       IN
       IF ReadJsonBodyThrows(body)
       THEN /\ res' = Refused(res, 400, InvalidJsonBody, "invalid_request")
            /\ pc' = "done"
            /\ UNCHANGED <<modelsToTry, stream, request>>
       ELSE IF MessagesThrows(body)
       THEN /\ pc' = "rejected"
            /\ UNCHANGED <<res, modelsToTry, stream, request>>
       ELSE IF ~MessagesOk(body)
       THEN /\ res' = Refused(res, 400, MessagesRequired, "invalid_request")
            /\ pc' = "done"
            /\ UNCHANGED <<modelsToTry, stream, request>>
       ELSE IF NotAString(resolveModelAlias(requestedModel))
       THEN \* toLowerCase of proxy.ts:190 throws
            /\ pc' = "rejected"
            /\ stream' = body.stream
            /\ UNCHANGED <<res, modelsToTry, request>>
       ELSE /\ pc' = "chainBuilt"
            /\ stream' = body.stream
            /\ res' = res
            /\ IF routingProfile = "direct"
               THEN /\ modelsToTry' = <<Written(resolveModelAlias(requestedModel))>>
                    /\ request' = [request EXCEPT !.profile = routingProfile]
               ELSE /\ modelsToTry' = ModelsToTry(request.decision.model, fallbackChain)
                    /\ request' = [request EXCEPT !.profile = routingProfile,
                                                  !.routeCalls = @ + 1,
                                                  !.tierList = tierList]
    /\ UNCHANGED <<i, lastError, lastStatus, response, attempts, payloads, hist>>
    /\ UNCHANGED <<routeVars, answer, server, probe>>

----------------------------------------------------------------------------
\* The specifications: one request through the fallback loop; concurrent
\* requests through the routing agent.

ProxyIdle ==
    /\ modelsToTry = <<>> /\ stream = FALSE /\ i = 0 /\ pc = "off"
    /\ lastError = NoError /\ lastStatus = 500 /\ response = NoResponse
    /\ res = FreshRes /\ attempts = <<>> /\ payloads = <<>> /\ hist = <<>>

RouteIdle ==
    /\ turnCache = <<>> /\ writes = <<>> /\ now = 0
    /\ config = [cacheTtlMs |-> 0]
    /\ rq = <<>>

Init == ProxyInit /\ RouteIdle /\ InputIdle

Next == ProxyNext

Spec == Init /\ [][Next]_vars

\* fetchWithRetry of retry.js and the reads of a response body: every
\* outbound call is bounded in time, so a call that is awaited comes back,
\* with an answer or with an exception
BoundedCalls == WF_vars(Next)

\* the fallback loop with outbound calls that are bounded in time
SpecTimed == Init /\ [][Next]_vars /\ BoundedCalls

InitRoute == RouteInit /\ ProxyIdle /\ InputIdle

NextRoute == RouteNext

SpecRoute == InitRoute /\ [][NextRoute]_vars

\* One request from the listener through the handler and the fallback loop.

\* body.model as clients write it: the sentinels and their aliases in several
\* spellings, blank, aliases and ids of backend models, a key of
\* Object.prototype
EntryModels ==
    { Name("auto"), InCapitals(Name("auto")), Padded(Name("router")),
      Name("auto-router"), Prefixed(Name("auto")), NoName, Padded(NoName),
      Name("eco"), InCapitals(Name("eco")), Prefixed(Name("eco")),
      Name("claude"), Prefixed(Name("claude")), InCapitals(Name("openai/gpt-4o")),
      Prefixed(Name("openai/gpt-4o")), Name("constructor") }

EntryBodies ==
    {OtherBody(kind) : kind \in {"unreadable", "malformed", "blank", "null", "primitive"}}
    \cup {ObjectBody(messages, <<>>, FALSE, NoName, 0, FALSE) :
             messages \in {"missing", "null", "text", "array"}}
    \cup {ObjectBody("array", OneUser, FALSE, NoName, 0, streamed) : streamed \in BOOLEAN}
    \cup {ObjectBody("array", OneUser, TRUE, model, 0, streamed) :
             model \in EntryModels, streamed \in BOOLEAN}
    \cup {ObjectBody("array", SystemAndUser, TRUE, Name("auto"), 256, streamed) :
             streamed \in BOOLEAN}

\* the routing configuration: the balanced table, with or without a
\* cost-optimized one
BalancedTiers ==
    [tier \in Tiers |-> IF tier = "SIMPLE"
                        THEN <<"google/gemini-2.5-flash", "deepseek/deepseek-chat">>
                        ELSE <<"deepseek/deepseek-chat">>]
EcoTiers ==
    [tier \in Tiers |-> IF tier = "SIMPLE"
                        THEN <<"deepseek/deepseek-chat", "google/gemini-2.5-flash">>
                        ELSE <<"deepseek/deepseek-chat">>]
EntryConfigs ==
    {[cacheTtlMs |-> 0, tiers |-> BalancedTiers, ecoTiers |-> eco] : eco \in {NoTiers, EcoTiers}}

\* what route of router/index.js answers for the request
EntryDecision == [model |-> "google/gemini-2.5-flash", tier |-> "SIMPLE"]

Arrived ==
    /\ modelsToTry = <<>> /\ stream = FALSE /\ i = 0 /\ pc = "arrived"
    /\ lastError = NoError /\ lastStatus = 500 /\ response = NoResponse
    /\ res = FreshRes /\ attempts = <<>> /\ payloads = <<>> /\ hist = <<>>
    /\ turnCache = <<>> /\ writes = <<>> /\ now = 0 /\ rq = <<>>
    /\ answer = <<>> /\ server = NoServer /\ probe = NoProbe

InitEntry ==
    /\ Arrived
    /\ config \in EntryConfigs
    /\ request \in {[NoRequest EXCEPT !.env = env, !.option = option, !.body = body,
                                       !.decision = EntryDecision] :
                        env \in EnvKeys, option \in OptionKeys, body \in EntryBodies}

NextEntry == Serve \/ HandleBody \/ ProxyNext

SpecEntry == InitEntry /\ [][NextEntry]_vars

\* The chain builder on routed requests, over tier tables, decisions and
\* token estimates.

\* max_tokens of the body: missing, at the edge of a 128000 window with the
\* 3 tokens of the prompt, beyond every window
ChainMaxTokens == {0, 127997, 127998, 2000000}

\* candidate lists of a tier: distinct ids, in any order
Candidates ==
    {"google/gemini-2.5-flash", "deepseek/deepseek-chat",
     "clawd-router/deepseek/deepseek-chat", "openai/gpt-9"}
TierLists ==
    UNION {{list \in [1..n -> Candidates] :
               \A a, b \in 1..n : a # b => list[a] # list[b]} : n \in 0..MaxTier}
Reversed(list) == [k \in 1..Len(list) |-> list[Len(list) + 1 - k]]
ChainConfigs ==
    {[cacheTtlMs |-> 0,
      tiers |-> [tier \in Tiers |-> IF tier = "SIMPLE" THEN list ELSE Reversed(list)],
      ecoTiers |-> eco] : list \in TierLists, eco \in {NoTiers, EcoTiers}}

InitChain ==
    /\ Arrived
    /\ config \in ChainConfigs
    /\ request \in
         {[NoRequest EXCEPT
              !.env = {<<"sk-or-1">>},
              !.body = ObjectBody("array", items, TRUE, model, max_tokens, FALSE),
              !.decision = [model |-> routed, tier |-> tier]] :
            items \in {OneUser, SystemAndUser}, model \in {Name("auto"), Name("eco")},
            max_tokens \in ChainMaxTokens,
            routed \in {"google/gemini-2.5-flash", "deepseek/deepseek-chat", "openai/gpt-9"},
            tier \in Tiers}

NextChain == Serve \/ HandleBody

SpecChain == InitChain /\ [][NextChain]_vars

\* The validation of an oracle answer, ai-router.ts:148-167, over every
\* answer text of up to MaxContent pieces: two requests have called the
\* oracle for the same turn or for two turns, the oracle has answered both
\* with success and the same content, and each reads and validates it.

\* the longest answer text, in pieces
MaxContent == 4

\* the pieces of an answer: white space, two catalog ids that may be chosen,
\* the sentinel, an id the catalog does not hold
AnswerPieces ==
    {Blank, LineBreak, "google/gemini-2.5-flash", "eco", "auto", "openai/gpt-9"}

AnswerTexts == UNION {[1..n -> AnswerPieces] : n \in 0..MaxContent}

\* ai-router.ts:102-148: the request missed the cache, called the oracle and
\* was answered with success
AwaitsAnswer(messages) ==
    [IdleRequest EXCEPT !.pc = "awaitOracleJson", !.requested = "auto",
                        !.messages = messages,
                        !.cacheKey = computeCacheKey(messages),
                        !.lookup = "absent", !.oracleCalls = 1]

\* ai-router.ts:148-167 for the answer in hand
Validates(r) == AnswerWith(r, answer)

InitAnswer ==
    /\ ProxyIdle
    /\ request = NoRequest /\ server = NoServer /\ probe = NoProbe
    /\ answer \in AnswerTexts
    /\ turnCache = <<>> /\ writes = <<>> /\ now = 0
    /\ config = [cacheTtlMs |-> 1]
    /\ rq \in {[r \in Requests |-> AwaitsAnswer(IF r = "r1" THEN <<UserHi>> ELSE other)] :
                 other \in {<<UserHi>>, <<UserHi, AssistantHello, UserProve>>}}

NextAnswer == \E r \in Requests : Validates(r)

SpecAnswer == InitAnswer /\ [][NextAnswer]_vars

\* Functions applied on their own: computeCacheKey (ai-router.ts:76-87), the
\* truncation loop of routeWithAI (ai-router.ts:108-111) and
\* calculateModelCost (selector.ts:16-49), over bounded arguments.

\* longest message list handed to computeCacheKey and to the truncation
MaxMessages == 2

\* config.promptTruncationChars ranges over 0..MaxLimit
MaxLimit == 70

\* token counts handed to calculateModelCost range over 0..MaxTokens
MaxTokens == 2

\* a content that carries the text by which JSON ends one message and
\* begins the next
Forged ==
    <<"a", Quote, "},{", Quote, "role", Quote, ":", Quote, "user", Quote,
      ",", Quote, "content", Quote, ":", Quote, "b">>

MessagePool ==
    { [role |-> "user", content |-> <<"a">>], [role |-> "user", content |-> <<"b">>],
      [role |-> "assistant", content |-> <<"a">>],
      [role |-> "user", content |-> <<"a", Backslash, Quote>>],
      [role |-> "user", content |-> Forged] }

\* messages is a non-empty array (proxy.ts:174, part_002:141)
MessageLists == UNION {[1..n -> MessagePool] : n \in 1..MaxMessages}

\* ai-router.ts:102: the keys of two message lists are computed
ComputeKeys ==
    /\ probe.fn = "computeCacheKey" /\ ~probe.done
    /\ probe' = [probe EXCEPT !.keyA = computeCacheKey(probe.a),
                              !.keyB = computeCacheKey(probe.b),
                              !.done = TRUE]
    /\ UNCHANGED <<proxyVars, routeVars, request, answer, server>>

\* ai-router.ts:109: the serialized list is longer than the limit
Oversized(list, limit) == Len(JsonStringify(list)) > limit

\* Array.prototype.pop: the last element is taken off
ShiftArray_Pop(list) ==
    IF list = <<>> THEN list ELSE SubSeq(list, 1, Len(list) - 1)

\* Array.prototype.shift: the first element is taken off, an empty array
\* stays empty
ShiftArray(list) == IF list = <<>> THEN list ELSE Tail(list)

\* ai-router.ts:109-110: one turn of the loop; shifts counts the messages
\* taken off, idle is the parity of the turns taken on an empty array
Shift ==
    /\ probe.fn = "truncate" /\ probe.pc = "loop"
    /\ Oversized(probe.routingMessages, probe.limit)
    /\ probe' = [probe EXCEPT
                   !.routingMessages = ShiftArray(@),
                   !.shifts = IF probe.routingMessages = <<>> THEN @ ELSE @ + 1,
                   !.idle = IF probe.routingMessages = <<>> THEN 1 - @ ELSE @]
    /\ UNCHANGED <<proxyVars, routeVars, request, answer, server>>

\* ai-router.ts:109, 113-134: the loop is left, routingMessages go into the
\* body of the oracle call
SendToOracle ==
    /\ probe.fn = "truncate" /\ probe.pc = "loop"
    /\ ~Oversized(probe.routingMessages, probe.limit)
    /\ probe' = [probe EXCEPT !.pc = "sent"]
    /\ UNCHANGED <<proxyVars, routeVars, request, answer, server>>

\* a pricing table: prices per million tokens of a cheap model, of the
\* baseline model and of a model dearer than the baseline; a model may be
\* missing from the table
BASELINE_MODEL_ID == "anthropic/claude-opus-4-5"
Pricings ==
    LET cheap == [inputPrice |-> 1, outputPrice |-> 2]
        opus == [inputPrice |-> 5, outputPrice |-> 25]
        dear == [inputPrice |-> 15, outputPrice |-> 75]
        free == [inputPrice |-> 0, outputPrice |-> 0]
    IN { [m \in {"cheap", BASELINE_MODEL_ID, "dear"} |->
             IF m = "cheap" THEN cheap ELSE IF m = "dear" THEN dear ELSE opus],
         [m \in {"cheap", "dear"} |-> IF m = "cheap" THEN cheap ELSE dear],
         [m \in {"cheap", BASELINE_MODEL_ID} |-> IF m = "cheap" THEN cheap ELSE free] }

\* pricing?.inputPrice ?? 0 and pricing?.outputPrice ?? 0 of selector.ts:23-27
PriceOf(modelPricing, model) ==
    IF model \in DOMAIN modelPricing THEN modelPricing[model]
    ELSE [inputPrice |-> 0, outputPrice |-> 0]

\* selector.ts:28-30, 36-38: (tokens / 1_000_000) * price, input plus output;
\* the cost is kept in millionths, which is exact
CostOf(price, estimatedInputTokens, maxOutputTokens) ==
    estimatedInputTokens * price.inputPrice + maxOutputTokens * price.outputPrice

\* a quotient num / den, den > 0
Ratio(num, den) == [num |-> num, den |-> den]

\* the savings without Math.max(0, ...)
Savings_Unclamped(routingProfile, baselineCost, costEstimate) ==
    IF routingProfile = "premium" THEN Ratio(0, 1)
    ELSE IF baselineCost > 0 THEN Ratio(baselineCost - costEstimate, baselineCost)
    ELSE Ratio(0, 1)

\* selector.ts:41-46
Savings(routingProfile, baselineCost, costEstimate) ==
    IF routingProfile = "premium" THEN Ratio(0, 1)
    ELSE IF baselineCost > 0
         THEN Ratio(IF baselineCost - costEstimate > 0
                    THEN baselineCost - costEstimate ELSE 0, baselineCost)
    ELSE Ratio(0, 1)

\* selector.ts:16-49
calculateModelCost(model, modelPricing, estimatedInputTokens, maxOutputTokens, routingProfile) ==
    LET costEstimate ==
            CostOf(PriceOf(modelPricing, model), estimatedInputTokens, maxOutputTokens)
        baselineCost ==
            CostOf(PriceOf(modelPricing, BASELINE_MODEL_ID), estimatedInputTokens,
                   maxOutputTokens)
    IN [costEstimate |-> costEstimate, baselineCost |-> baselineCost,
        savings |-> Savings(routingProfile, baselineCost, costEstimate)]

CalculateCost ==
    /\ probe.fn = "calculateModelCost" /\ ~probe.done
    /\ probe' = [probe EXCEPT
                   !.result = calculateModelCost(probe.model, probe.modelPricing,
                                                 probe.estimatedInputTokens,
                                                 probe.maxOutputTokens,
                                                 probe.routingProfile),
                   !.done = TRUE]
    /\ UNCHANGED <<proxyVars, routeVars, request, answer, server>>

\* longest multi-part content handed to extractContent
MaxParts == 2

\* parts of a multi-part content: two text parts, an image part, an object
\* without type, and parts that are no objects (a string, null)
ContentParts ==
    { [kind |-> "object", type |-> "text", text |-> "ask"],
      [kind |-> "object", type |-> "text", text |-> "more"],
      [kind |-> "object", type |-> "image_url", text |-> ""],
      [kind |-> "object", type |-> "", text |-> ""],
      [kind |-> "string", type |-> "", text |-> "raw"],
      [kind |-> "null", type |-> "", text |-> ""] }

\* the content of a message: a string, an array of parts, a number, missing
Contents ==
    {[kind |-> "string", text |-> text, parts |-> <<>>] : text \in {"", "ask"}}
    \cup {[kind |-> "array", text |-> "", parts |-> parts] :
              parts \in UNION {[1..n -> ContentParts] : n \in 0..MaxParts}}
    \cup {[kind |-> "number", text |-> "5", parts |-> <<>>],
          [kind |-> "undefined", text |-> "", parts |-> <<>>]}

\* String(part) of proxy.ts:117
StringOf(part) ==
    CASE part.kind = "object" -> "[object Object]"
      [] part.kind = "null" -> "null"
      [] OTHER -> part.text

\* proxy.ts:110-120
extractContent(content) ==
    IF content.kind = "string" THEN content.text
    ELSE IF content.kind = "array" /\ Len(content.parts) > 0
    THEN LET part == content.parts[1]
         IN IF part.kind = "object" /\ part.type = "text"
            THEN part.text
            ELSE StringOf(part)
    ELSE ""

\* proxy.ts:90, 102: extractContent(m?.content) is applied
ExtractContent ==
    /\ probe.fn = "extractContent" /\ ~probe.done
    /\ probe' = [probe EXCEPT !.result = extractContent(probe.content),
                              !.done = TRUE]
    /\ UNCHANGED <<proxyVars, routeVars, request, answer, server>>

InitFunctions ==
    /\ ProxyIdle /\ RouteIdle
    /\ request = NoRequest /\ answer = <<>> /\ server = NoServer
    /\ \/ probe \in [fn : {"computeCacheKey"}, a : MessageLists, b : MessageLists,
                     keyA : {<<>>}, keyB : {<<>>}, done : {FALSE}]
       \/ \E messages \in MessageLists, limit \in 0..MaxLimit :
             probe = [fn |-> "truncate", messages |-> messages, limit |-> limit,
                      routingMessages |-> messages, shifts |-> 0, idle |-> 0,
                      pc |-> "loop"]
       \/ probe \in [fn : {"calculateModelCost"},
                     model : {"cheap", "dear", BASELINE_MODEL_ID, "unlisted"},
                     modelPricing : Pricings,
                     estimatedInputTokens : 0..MaxTokens,
                     maxOutputTokens : 0..MaxTokens,
                     routingProfile : {"free", "eco", "auto", "premium", "undefined"},
                     result : {<<>>}, done : {FALSE}]
       \/ probe \in [fn : {"extractContent"}, content : Contents,
                     result : {""}, done : {FALSE}]

NextFunctions ==
    ComputeKeys \/ Shift \/ SendToOracle \/ CalculateCost \/ ExtractContent

SpecFunctions == InitFunctions /\ [][NextFunctions]_vars

\* ai-router.ts:109-111: the loop is synchronous code, the engine takes its
\* next turn as long as there is one
LoopRuns == WF_vars(NextFunctions)

\* the functions, each run for as long as it has a step to take
SpecLoop == InitFunctions /\ [][NextFunctions]_vars /\ LoopRuns

\* The listener and its shutdown: createServer and listen of proxy.ts:327,
\* 371-386, close of the ProxyHandle (proxy.ts:378-382), the signal handler
\* of cli.ts:76-87. A connection carries one request.

\* connections that try to reach the listener
MaxConns == 3
Conns == 1..MaxConns

\* close() is called up to MaxCloseCalls times (SIGINT and SIGTERM both
\* call shutdown)
MaxCloseCalls == 2

\* the listening socket accepts a connection and the request handler of
\* proxy.ts:327 starts
Accept(c) ==
    /\ server.listening /\ ~server.exited
    /\ c \notin server.open \cup server.done \cup server.refused
    /\ server' = [server EXCEPT !.open = @ \cup {c}]
    /\ UNCHANGED <<proxyVars, routeVars, request, answer, probe>>

\* a connection attempt finds the listening socket closed
Refuse(c) ==
    /\ ~server.listening
    /\ c \notin server.open \cup server.done \cup server.refused
    /\ server' = [server EXCEPT !.refused = @ \cup {c}]
    /\ UNCHANGED <<proxyVars, routeVars, request, answer, probe>>

\* the response of a request in flight is ended and its connection closes
Complete(c) ==
    /\ c \in server.open
    /\ server' = [server EXCEPT !.open = @ \ {c}, !.done = @ \cup {c}]
    /\ UNCHANGED <<proxyVars, routeVars, request, answer, probe>>

\* a close that also destroys the connections in flight
Close_Abrupt ==
    /\ ~server.exited /\ server.closeCalls < MaxCloseCalls
    /\ server' = [server EXCEPT
                    !.listening = FALSE, !.closeCalls = @ + 1, !.open = {},
                    !.atClose = IF server.closeCalls = 0 THEN server.open ELSE @]
    /\ UNCHANGED <<proxyVars, routeVars, request, answer, probe>>

\* proxy.ts:378-382: close() of the handle calls server.close(cb): the
\* listening socket is closed, the connections are left alone, cb waits for
\* the server's close event. atClose (observation only) keeps the requests
\* in flight at the first call
Close ==
    /\ ~server.exited /\ server.closeCalls < MaxCloseCalls
    /\ server' = [server EXCEPT
                    !.listening = FALSE, !.closeCalls = @ + 1,
                    !.atClose = IF server.closeCalls = 0 THEN server.open ELSE @]
    /\ UNCHANGED <<proxyVars, routeVars, request, answer, probe>>

\* proxy.ts:381: the listening socket is closed and no connection is left;
\* the server emits close, the callbacks run and the promises of close()
\* resolve
EmitClose ==
    /\ ~server.listening /\ ~server.exited /\ server.open = {}
    /\ server.closeResolved < server.closeCalls
    /\ server' = [server EXCEPT !.released = TRUE, !.closeResolved = server.closeCalls]
    /\ UNCHANGED <<proxyVars, routeVars, request, answer, probe>>

\* cli.ts:78-79: await proxy.close() is over, process.exit(0) ends
\* whatever is still in flight
Exit ==
    /\ server.closeResolved >= 1 /\ ~server.exited
    /\ server' = [server EXCEPT !.exited = TRUE, !.open = {}]
    /\ UNCHANGED <<proxyVars, routeVars, request, answer, probe>>

InitListen ==
    /\ ProxyIdle /\ RouteIdle
    /\ request = NoRequest /\ answer = <<>> /\ probe = NoProbe
    /\ server = [NoServer EXCEPT !.listening = TRUE]

NextListen ==
    \/ \E c \in Conns : Accept(c) \/ Refuse(c) \/ Complete(c)
    \/ Close
    \/ EmitClose
    \/ Exit

SpecListen == InitListen /\ [][NextListen]_vars

\* The service of the plugin: register of index.ts:258-310 starts the proxy
\* without awaiting it and registers a service whose stop() closes the
\* handle kept in activeProxyHandle (TRUE here for a handle, FALSE for null).

\* proxy.ts:371-385, index.ts:297-301: the socket is bound, the listening
\* callback resolves the promise of startProxy and the then-callback of
\* register keeps the handle
Listening ==
    /\ server.starting
    /\ server' = [server EXCEPT !.starting = FALSE, !.listening = TRUE,
                                !.activeProxyHandle = TRUE]
    /\ UNCHANGED <<proxyVars, routeVars, request, answer, probe>>

\* proxy.ts:366-369, index.ts:302-304: listen fails, the promise is
\* rejected and the failure is logged
ListenFails ==
    /\ server.starting
    /\ server' = [server EXCEPT !.starting = FALSE]
    /\ UNCHANGED <<proxyVars, routeVars, request, answer, probe>>

\* index.ts:277-281: stop() is called; with a handle it calls close() and
\* awaits it, without one it returns at once
Stop ==
    /\ ~server.stopping /\ server.stopped < MaxCloseCalls
    /\ IF server.activeProxyHandle
       THEN server' = [server EXCEPT !.stopping = TRUE, !.listening = FALSE,
                                     !.closeCalls = @ + 1]
       ELSE server' = [server EXCEPT !.stopped = @ + 1]
    /\ UNCHANGED <<proxyVars, routeVars, request, answer, probe>>

\* index.ts:279-280: await activeProxyHandle.close() is over, the handle is
\* dropped and stop() returns
StopReturns ==
    /\ server.stopping /\ server.closeResolved = server.closeCalls
    /\ server' = [server EXCEPT !.stopping = FALSE, !.activeProxyHandle = FALSE,
                                !.stopped = @ + 1]
    /\ UNCHANGED <<proxyVars, routeVars, request, answer, probe>>

\* index.ts:289-305: register has returned in gateway mode; startProxy is
\* called and not settled yet
InitService ==
    /\ ProxyIdle /\ RouteIdle
    /\ request = NoRequest /\ answer = <<>> /\ probe = NoProbe
    /\ server = [NoServer EXCEPT !.starting = TRUE]

NextService ==
    \/ Listening
    \/ ListenFails
    \/ Stop
    \/ StopReturns
    \/ EmitClose
    \/ \E c \in Conns : Accept(c) \/ Refuse(c) \/ Complete(c)

SpecService == InitService /\ [][NextService]_vars

----------------------------------------------------------------------------
\* Claims about the fallback loop (checked under Spec).

\* the handler has returned or rejected and no pipe is running
Finished == pc \in {"done", "rejected"}

\* the upstream answered the attempt with a success status
AnsweredOk(h) == h.outcome \in {"success", "streamed", "okTextThrew", "okHeadThrew"}

\* the attempt failed with a retryable status or with an exception
FailedRetryably(h) ==
    \/ h.outcome = "failure" /\ h.status \in {429, 502, 503, 504}
    \/ h.outcome \in {"fetchThrew", "errTextThrew", "okTextThrew", "okHeadThrew"}

\* C1 Retry boundary: when the upstream answered attempt i with 429, 502, 503
\* or 504 and the chain has a further entry, the handler's step records the
\* status and the error, leaves the caller's response untouched and issues
\* attempt i+1 against modelsToTry[i+1]; the arrival of the failure head
\* itself writes nothing to the caller either.
C1_RetryBoundary ==
    [][ /\ (pc = "awaitFetch" /\ pc' = "awaitErrText") => res' = res
        /\ ( /\ pc = "awaitErrText"
             /\ response.status \in {429, 502, 503, 504}
             /\ i < Len(modelsToTry) )
           => /\ res' = res
              /\ lastStatus' = response.status
              /\ lastError' \in {OpenRouterErrorMessage(response.status, response.text),
                                 BodyTerminated}
              /\ i' = i + 1
              /\ attempts' = Append(attempts, modelsToTry[i + 1])
              /\ pc' = "awaitFetch" ]_vars

\* C1 witness: attempt 1 was answered 503, nothing was relayed and attempt 2
\* is under way against the second chain entry.
C1_Witness ==
    /\ Len(hist) = 1 /\ hist[1].outcome = "failure" /\ hist[1].status = 503
    /\ Len(modelsToTry) >= 2
    /\ attempts = SubSeq(modelsToTry, 1, 2)
    /\ pc = "awaitFetch" /\ res = FreshRes /\ lastStatus = 503

\* C2 Non-retryable failure, as claimed: once the upstream answered an
\* attempt with a failure status outside 429/502/503/504, the handler's next
\* step answers the caller with that status and the upstream's body verbatim,
\* returns, and issues no further attempt.
C2_FatalRelayedVerbatim ==
    [][ ( /\ pc = "awaitErrText"
          /\ response.status \notin {429, 502, 503, 504} )
        => /\ res'.headSent /\ res'.status = response.status
           /\ res'.body = <<response.text>> /\ res'.ends = 1
           /\ attempts' = attempts
           /\ pc' = "done" ]_vars

\* C3 Chain exhaustion, as claimed: when every chain entry has failed with a
\* retryable status or an exception, the caller got exactly one response:
\* the last recorded status (500 if none) and the internal_error envelope
\* with the message of the last recorded error.
C3_ExhaustedResponse ==
    ( /\ Finished
      /\ Len(hist) = Len(modelsToTry)
      /\ \A k \in 1..Len(hist) : FailedRetryably(hist[k]) )
    => /\ pc = "done"
       /\ res = [headSent |-> TRUE, status |-> lastStatus, headers |-> JsonHeaders,
                 body |-> <<StringifyError(lastError, "internal_error")>>,
                 ends |-> 1]
       /\ lastError # NoError
       /\ LET recorded == {k \in 1..Len(hist) : hist[k].status \notin {0, 200}}
          IN  lastStatus = IF recorded = {} THEN 500
                           ELSE hist[CHOOSE k \in recorded :
                                       \A j \in recorded : j <= k].status

\* C4 First success wins, as claimed: once an attempt was answered with a
\* success status and the request is over, the caller holds that response's
\* status, headers and body (the chunks when streamed), the handler returned,
\* and no later attempt was issued.
C4_FirstSuccessWins ==
    ( /\ Finished
      /\ \E k \in 1..Len(hist) : AnsweredOk(hist[k]) )
    => LET k == CHOOSE j \in 1..Len(hist) :
                    AnsweredOk(hist[j]) /\ \A l \in 1..(j - 1) : ~AnsweredOk(hist[l])
           h == hist[k]
       IN /\ pc = "done"
          /\ res.headSent /\ res.status = h.status
          /\ res.headers = OkHeaders(h.model)
          /\ res.ends = 1
          /\ IF h.outcome = "streamed"
             THEN \E n \in 0..MaxChunks : res.body = SubSeq(OkChunks(h.model), 1, n)
             ELSE res.body = <<h.text>>
          /\ Len(attempts) = k

\* C5 Clean outcome, as claimed: when the handler is over, the head was
\* written once and the response ended once, and a request without stream
\* holds one complete success response or one complete error response.
C5_CleanOutcome ==
    Finished =>
       /\ res.headSent /\ res.ends = 1
       /\ ~stream => Len(res.body) = 1

----------------------------------------------------------------------------
\* Claims about the routing agent and its turn cache (checked under
\* SpecRoute).

\* the request's handler runs routeWithAI's lookup in this step
Looks(r) == rq[r].pc = "idle" /\ rq'[r].lookup # ""

\* routing has given the request a model
Decided(r) == rq[r].model # ""

\* C6 Cache hit: whenever the turn cache holds an entry under the request's
\* CacheKey with expiresAt > now, the lookup returns that entry's modelId and
\* no oracle call is issued for the request.
C6_CacheHit ==
    [][ \A r \in Requests :
          Looks(r) =>
             LET k == computeCacheKey(rq'[r].messages) IN
             (k \in DOMAIN turnCache /\ turnCache[k].expiresAt > now)
             => /\ rq'[r].model = turnCache[k].modelId
                /\ rq'[r].oracleCalls = 0
                /\ rq'[r].pc = "awaitUpstream" ]_vars

\* C6 witness: a repeated identical request got the model the first one was
\* routed to, without an oracle call of its own.
C6_Witness ==
    \E r1, r2 \in Requests :
        /\ r1 # r2 /\ rq[r1].messages = rq[r2].messages
        /\ rq[r1].oracleCalls = 1 /\ Decided(r1)
        /\ rq[r2].oracleCalls = 0 /\ rq[r2].model = rq[r1].model
        /\ rq[r2].lookup = "live"

\* C7 Cache TTL expiry: a lookup at an instant now >= expiresAt (now =
\* expiresAt included) never answers from the entry; it issues an oracle call.
C7_TtlExpiry ==
    [][ \A r \in Requests :
          Looks(r) =>
             LET k == computeCacheKey(rq'[r].messages) IN
             (k \in DOMAIN turnCache /\ now >= turnCache[k].expiresAt)
             => /\ rq'[r].model = ""
                /\ rq'[r].oracleCalls = 1
                /\ rq'[r].pc = "awaitOracle" ]_vars

\* C7 witness: a request looked at the very instant its key's entry expired
\* (the entry had lived for a positive TTL) and is calling the oracle.
C7_Witness ==
    \E r \in Requests :
        /\ rq[r].lookup = "expires now" /\ config.cacheTtlMs > 0
        /\ rq[r].pc = "awaitOracle" /\ rq[r].oracleCalls = 1

\* C8 Same turn, same decision, as claimed: two requests with the same
\* CacheKey that were decided within one live period of the key's entry
\* (the entry never absent or dead in between) got the same model.
C8_SameTurnSameDecision ==
    \A r1, r2 \in Requests :
        ( /\ Decided(r1) /\ Decided(r2)
          /\ rq[r1].cacheKey = rq[r2].cacheKey
          /\ rq[r1].livePeriod > 0
          /\ rq[r1].livePeriod = rq[r2].livePeriod )
        => rq[r1].model = rq[r2].model

\* C8 amended: two requests with the same CacheKey that were decided under
\* the same cache write of that key, while the entry was live, got the same
\* model (a call that missed earlier and writes later starts a new write).
C8_SameEntrySameDecision ==
    \A r1, r2 \in Requests :
        ( /\ Decided(r1) /\ Decided(r2)
          /\ rq[r1].cacheKey = rq[r2].cacheKey
          /\ rq[r1].livePeriod > 0 /\ rq[r2].livePeriod > 0
          /\ rq[r1].writeNo = rq[r2].writeNo )
        => rq[r1].model = rq[r2].model

\* C8 witness: two requests with different message lists but the same
\* CacheKey were decided under the same write, one by the oracle and one by
\* the cache.
C8_Witness ==
    \E r1, r2 \in Requests :
        /\ rq[r1].messages # rq[r2].messages
        /\ rq[r1].cacheKey = rq[r2].cacheKey
        /\ Decided(r1) /\ Decided(r2)
        /\ rq[r1].oracleCalls = 1 /\ rq[r2].oracleCalls = 0
        /\ rq[r1].writeNo = 1 /\ rq[r2].writeNo = 1
        /\ rq[r1].livePeriod = 1 /\ rq[r2].livePeriod = 1

\* C9 Cache mutation on success only, as claimed: the cache changes only in
\* the step in which a request's oracle answer was validated, and a call
\* whose oracle call threw, answered a failure status or answered an
\* unrecognized identifier ends with RoutingError and without a cache write.
C9_CacheWriteOnSuccessOnly ==
    [][ /\ turnCache' # turnCache =>
              \E r \in Requests :
                 /\ rq[r].pc = "awaitOracleJson" /\ Decided(r)'
                 /\ \E k \in 1..Len(OPENROUTER_MODELS) :
                       OPENROUTER_MODELS[k] = rq'[r].model /\ rq'[r].model # "auto"
        /\ \A r \in Requests :
              \/ rq[r].pc = "awaitOracle" /\ rq'[r].pc \notin {"awaitOracle", "awaitOracleText", "awaitOracleJson"}
              \/ rq[r].pc = "awaitOracleText" /\ rq'[r].pc # "awaitOracleText"
              \/ rq[r].pc = "awaitOracleJson" /\ rq'[r].pc = "done"
              => /\ rq'[r].error = "RoutingError"
                 /\ turnCache' = turnCache ]_vars

\* C10 Routing failure is fatal: a request whose routing failed with
\* RoutingError is answered 500 with type routing_error, made one oracle call
\* and no upstream attempt, and its handler is over.
C10_RoutingFailureFatal ==
    \A r \in Requests :
        rq[r].error = "RoutingError"
        => /\ rq[r].out = [status |-> 500, type |-> "routing_error", ends |-> 1]
           /\ rq[r].oracleCalls = 1
           /\ rq[r].forwards = 0
           /\ rq[r].pc = "done"

\* C10 witness: a request's oracle call failed and the request was answered
\* 500/routing_error while the other request was routed and forwarded.
C10_Witness ==
    \E r1, r2 \in Requests :
        /\ rq[r1].error = "RoutingError" /\ rq[r1].out.status = 500
        /\ rq[r1].pc = "done"
        /\ rq[r2].forwards = 1

----------------------------------------------------------------------------
\* Claims about the paths through the handler.

\* C11 Direct model path, as claimed: a request whose model is neither "auto"
\* nor "router" nor an alias of them made no oracle call and no cache lookup,
\* its steps leave the turn cache alone, and as soon as it is handled exactly
\* one upstream attempt is issued for it, against the resolved model.
C11_DirectPath ==
    [][ \A r \in Requests :
          rq'[r].requested \in {"claude", "constructor"}
          => /\ rq'[r].oracleCalls = 0 /\ rq'[r].lookup = ""
             /\ rq'[r].forwards = 1
             /\ rq'[r].model = IF rq'[r].requested = "claude"
                               THEN "anthropic/claude-sonnet-4-5"
                               ELSE rq'[r].requested
             /\ (rq'[r] # rq[r] => turnCache' = turnCache) ]_vars

----------------------------------------------------------------------------
\* Claims about the chain builder (SpecChain).

\* the estimated total tokens of the request in hand: a quarter of the
\* characters of system prompt, blank and prompt, rounded up, plus the
\* requested (or default) output tokens
TokensOfRequest ==
    (IF request.body.items = OneUser THEN 3 ELSE 103)
    + (IF request.body.max_tokens = 0 THEN 4096 ELSE request.body.max_tokens)

\* the context window of a candidate is at least n tokens
WindowAtLeast(modelId, n) ==
    \/ modelId = "google/gemini-2.5-flash" /\ 1000000 >= n
    \/ modelId \in {"deepseek/deepseek-chat", "clawd-router/deepseek/deepseek-chat"}
       /\ 128000 >= n

\* no identifier occurs twice in the list
Distinct(list) == \A a, b \in 1..Len(list) : a # b => list[a] # list[b]

\* part holds entries of list only, in the order they have in list
InOrderOf(part, list) ==
    /\ \A a \in 1..Len(part) : Includes(list, part[a])
    /\ \A a, b \in 1..Len(part) :
          a < b => \E x, y \in 1..Len(list) :
                      x < y /\ list[x] = part[a] /\ list[y] = part[b]

\* C12 Chain non-emptiness and primacy, as claimed: the chain built for a
\* routed request is non-empty, and its first entry is the routed model
\* whenever that model is in the catalog.
C12_RoutedModelFirst ==
    pc = "chainBuilt"
    => /\ modelsToTry # <<>>
       /\ request.decision.model \in {"google/gemini-2.5-flash", "deepseek/deepseek-chat"}
          => modelsToTry[1] = request.decision.model

C14_ExactlyTheFitting ==
    pc = "chainBuilt"
    => \A k \in 1..Len(request.tierList) :
          Includes(modelsToTry, request.tierList[k])
          <=> WindowAtLeast(request.tierList[k], TokensOfRequest)

\* C14 amended: a candidate of the tier list other than the routed model is
\* in the chain exactly if its context window is at least the estimated total
\* tokens; the routed model is in the chain whatever its window.
C14_ExactlyTheFittingOthers ==
    pc = "chainBuilt"
    => /\ Includes(modelsToTry, request.decision.model)
       /\ \A k \in 1..Len(request.tierList) :
             request.tierList[k] # request.decision.model
             => ( Includes(modelsToTry, request.tierList[k])
                  <=> WindowAtLeast(request.tierList[k], TokensOfRequest) )

\* C14 witness: the estimate is exactly 128000 tokens; the candidate with a
\* window of 128000 is kept, the one with no known window is dropped.
C14_Witness ==
    /\ pc = "chainBuilt" /\ TokensOfRequest = 128000
    /\ request.tierList = <<"openai/gpt-9", "deepseek/deepseek-chat">>
    /\ modelsToTry = <<"google/gemini-2.5-flash", "deepseek/deepseek-chat">>

----------------------------------------------------------------------------
\* Claims about the listener and the head of the handler (SpecEntry).

\* the handler has gone past the read of the body
BodyHandled == pc \notin {"arrived", "readBody"}

\* the caller holds one complete error response of this status and type
AnsweredError(statuses, type) ==
    /\ pc = "done" /\ res.headSent /\ res.status \in statuses /\ res.ends = 1
    /\ \E message \in {InvalidJsonBody, MessagesRequired, ApiKeyRequired} :
          res.body = <<StringifyError(message, type)>>

\* C15 Invalid request, as claimed: a request with a credential whose body is
\* no valid JSON, or lacks messages, or has messages that is no array or an
\* empty one, is answered 400 with type invalid_request; no route call, no
\* upstream attempt and no change of the turn cache happen for it.
C15_InvalidRequest ==
    ( /\ BodyHandled
      /\ request.apiKey = <<"sk-or-1">>
      /\ \/ request.body.kind \in {"unreadable", "malformed", "blank", "null", "primitive"}
         \/ request.body.messages # "array"
         \/ request.body.items = <<>> )
    => /\ AnsweredError({400}, "invalid_request")
       /\ request.routeCalls = 0 /\ attempts = <<>> /\ turnCache = <<>>

\* C16 Missing credential, as claimed: a request arriving when the credential
\* is empty or blank is answered 400 or 401 with type authentication_error,
\* the body is never read, and no route call and no upstream attempt happen.
C16_MissingCredential ==
    ( /\ pc # "arrived"
      /\ request.apiKey \in {<<>>, <<Blank>>} )
    => /\ AnsweredError({400, 401}, "authentication_error")
       /\ request.routeCalls = 0 /\ attempts = <<>>

\* the requested model as written selects the balanced profile
WritesAuto(body) ==
    \/ ~body.hasModel
    \/ Written(body.model) \in {"auto", "AUTO", " router ", "auto-router",
                                 "clawd-router/auto", "", "  "}

\* the requested model as written selects the cost-optimized profile
WritesEco(body) ==
    body.hasModel /\ Written(body.model) \in {"eco", "ECO", "clawd-router/eco"}

\* the model a directly requested name stands for
DirectModel(body) ==
    CASE Written(body.model) \in {"claude", "clawd-router/claude"}
            -> "anthropic/claude-sonnet-4-5"
      [] Written(body.model) = "clawd-router/openai/gpt-4o" -> "openai/gpt-4o"
      [] OTHER -> Written(body.model)

\* C17 Profile selection, as claimed: once the body of a valid request is
\* handled, "auto", "router", their aliases and spellings and a missing or
\* blank model have led to one route call and the balanced tier table; "eco"
\* to one route call and the cost-optimized table (the balanced one when
\* none is configured); every other value to no route call and the chain of
\* the one resolved model.
C17_ProfileSelection ==
    ( /\ BodyHandled
      /\ request.apiKey = <<"sk-or-1">>
      /\ request.body.kind = "object" /\ request.body.messages = "array"
      /\ request.body.items # <<>> )
    => LET body == request.body
           tier == request.decision.tier
       IN IF WritesAuto(body)
          THEN /\ request.profile = "auto" /\ request.routeCalls = 1
               /\ request.tierList = config.tiers[tier]
          ELSE IF WritesEco(body)
          THEN /\ request.profile = "eco" /\ request.routeCalls = 1
               /\ request.tierList = IF config.ecoTiers = NoTiers
                                      THEN config.tiers[tier]
                                      ELSE config.ecoTiers[tier]
          ELSE /\ request.profile = "direct" /\ request.routeCalls = 0
               /\ modelsToTry = <<DirectModel(body)>>


----------------------------------------------------------------------------
\* Claims about the validation of the oracle's answer (SpecAnswer).

\* the catalog members other than the sentinel "auto"
SelectableIds == {"eco", "google/gemini-2.5-flash", "deepseek/deepseek-chat"}

\* the piece at k is the only ink of its line: blanks alone follow it up to
\* the end of the text or the next line break
EndsItsLine(content, k) ==
    \E e \in k..Len(content) :
        /\ \A j \in (k + 1)..e : content[j] = Blank
        /\ (e = Len(content) \/ content[e + 1] = LineBreak)

\* the first line of the text, with the blanks around it taken off, is id
FirstLineIs(content, id) ==
    \E k \in 1..Len(content) :
        /\ content[k] = id
        /\ \A j \in 1..(k - 1) : content[j] = Blank
        /\ EndsItsLine(content, k)

\* the first line that is not blank, with the blanks around it taken off, is
\* id: the first line of the text once the white space around the whole
\* text is taken off
FirstInkedLineIs(content, id) ==
    \E k \in 1..Len(content) :
        /\ content[k] = id
        /\ \A j \in 1..(k - 1) : IsSpace(content[j])
        /\ EndsItsLine(content, k)

\* the request's answer has been validated
Validated(r) == rq[r].pc # "awaitOracleJson"

\* routeWithAI returned id for the request and stored it under its key
ReturnedAndStored(r, id) ==
    /\ rq[r].model = id /\ rq[r].error = ""
    /\ rq[r].cacheKey \in DOMAIN turnCache
    /\ turnCache[rq[r].cacheKey].modelId = id

\* routeWithAI failed with RoutingError for the request
FailedRouting(r) == rq[r].model = "" /\ rq[r].error = "RoutingError"

\* C18 Oracle answer validation, as claimed: routeWithAI returns an id
\* exactly if the first line of the oracle's answer, trimmed, is a catalog
\* member other than "auto"; every other answer fails with RoutingError and
\* stores nothing, and every modelId in the turn cache is a catalog member
\* other than "auto".
C18_TrimmedFirstLine ==
    /\ \A r \in Requests :
          Validated(r)
          => IF \E id \in SelectableIds : FirstLineIs(answer, id)
             THEN \E id \in SelectableIds :
                     FirstLineIs(answer, id) /\ ReturnedAndStored(r, id)
             ELSE FailedRouting(r) /\ turnCache = <<>>
    /\ \A k \in DOMAIN turnCache : turnCache[k].modelId \in SelectableIds

\* C18 Oracle answer validation, amended: the line that counts is the first
\* line of the answer after the white space around the whole answer, leading
\* line breaks included, is taken off; trimmed, it must be a catalog member
\* other than "auto".
C18_TrimmedFirstInkedLine ==
    /\ \A r \in Requests :
          Validated(r)
          => IF \E id \in SelectableIds : FirstInkedLineIs(answer, id)
             THEN \E id \in SelectableIds :
                     FirstInkedLineIs(answer, id) /\ ReturnedAndStored(r, id)
             ELSE FailedRouting(r) /\ turnCache = <<>>
    /\ \A k \in DOMAIN turnCache : turnCache[k].modelId \in SelectableIds

\* C18 witness: the answer opens with a line break, names "eco" on its
\* second line and "auto" on its third; both requests were given
\* "eco" and the cache holds it.
C18_Witness ==
    /\ answer = <<LineBreak, "eco", LineBreak, "auto">>
    /\ \A r \in Requests : Validated(r) /\ ReturnedAndStored(r, "eco")


----------------------------------------------------------------------------
\* Claims about requests racing for one turn (SpecRoute).

\* the request's validated answer is written to the cache in this step
Writes(r) == rq[r].pc = "awaitOracleJson" /\ rq'[r].model # ""

\* the request called the oracle and routeWithAI returned its answer
DecidedByOracle(r) == rq[r].oracleCalls = 1 /\ Decided(r)

\* the request's oracle call is under way
InFlight(r) == rq[r].pc \in {"awaitOracle", "awaitOracleText", "awaitOracleJson"}

\* C19 Last writer wins: a cache write puts the writer's modelId and its
\* now + cacheTtlMs under the key whatever the key held, and touches no
\* other key; so when two requests for the same turn were both decided by
\* their own oracle call, the one entry of the key holds the modelId of the
\* request that wrote last.
C19_LastWriterWins ==
    /\ [][ \A r \in Requests :
             Writes(r)
             => LET cacheKey == rq[r].cacheKey
                IN /\ DOMAIN turnCache' = DOMAIN turnCache \cup {cacheKey}
                   /\ turnCache'[cacheKey] =
                         [modelId |-> rq'[r].model,
                          expiresAt |-> now + config.cacheTtlMs]
                   /\ \A k \in DOMAIN turnCache \ {cacheKey} :
                         turnCache'[k] = turnCache[k] ]_vars
    /\ [](\A first, last \in Requests :
             ( /\ DecidedByOracle(first) /\ DecidedByOracle(last)
               /\ rq[first].cacheKey = rq[last].cacheKey
               /\ rq[first].writeNo < rq[last].writeNo )
             => /\ rq[last].cacheKey \in DOMAIN turnCache
                /\ turnCache[rq[last].cacheKey].modelId = rq[last].model)

\* C19 witness: two requests for the same turn both called the oracle, were
\* given different models and wrote one after the other; the entry holds the
\* model of the second writer.
C19_Witness ==
    \E first, last \in Requests :
        /\ DecidedByOracle(first) /\ DecidedByOracle(last)
        /\ rq[first].cacheKey = rq[last].cacheKey
        /\ rq[first].writeNo = 1 /\ rq[last].writeNo = 2
        /\ rq[first].model # rq[last].model
        /\ turnCache[rq[last].cacheKey].modelId = rq[last].model

\* C20 No single-flight: a request that looks its key up while another
\* request's oracle call for the same key is under way misses the cache and
\* issues an oracle call of its own; the other call goes on untouched.
C20_NoSingleFlight ==
    [][ \A r, o \in Requests :
          ( /\ Looks(r) /\ InFlight(o)
            /\ rq'[r].cacheKey = rq[o].cacheKey )
          => /\ rq'[r].lookup # "live"
             /\ rq'[r].pc = "awaitOracle" /\ rq'[r].oracleCalls = 1
             /\ rq'[o] = rq[o] ]_vars

\* C20 witness: two requests with the same CacheKey have each issued an
\* oracle call and both calls are under way; the cache holds nothing.
C20_Witness ==
    /\ turnCache = <<>>
    /\ \A r \in Requests : rq[r].pc = "awaitOracle" /\ rq[r].oracleCalls = 1
    /\ rq["r1"].cacheKey = rq["r2"].cacheKey


\* C21 Key independence: in every step, a key whose entry appears, vanishes
\* or changes its modelId or expiresAt is the key of a request whose
\* validated answer is written in that step; every other key keeps its entry.
C21_KeyIndependence ==
    [][ \A k \in DOMAIN turnCache \cup DOMAIN turnCache' :
          \/ /\ k \in DOMAIN turnCache /\ k \in DOMAIN turnCache'
             /\ turnCache'[k] = turnCache[k]
          \/ \E r \in Requests : Writes(r) /\ rq[r].cacheKey = k ]_vars

\* C21 witness: two requests for different turns both called the oracle and
\* were given different models; each key holds the model of its own request.
C21_Witness ==
    /\ DecidedByOracle("r1") /\ DecidedByOracle("r2")
    /\ rq["r1"].cacheKey # rq["r2"].cacheKey
    /\ rq["r1"].model # rq["r2"].model
    /\ DOMAIN turnCache = {rq["r1"].cacheKey, rq["r2"].cacheKey}
    /\ \A r \in Requests : turnCache[rq[r].cacheKey].modelId = rq[r].model


----------------------------------------------------------------------------
\* Claims about functions applied on their own (SpecFunctions).

\* list is head followed by rest
SplitsInto(list, head, rest) == list = head \o rest

\* the part of the list the key is made of: the list up to and including its
\* last user message, the whole list when it has no user message
KeyPrefixes(list) ==
    {SubSeq(list, 1, n) : n \in
        {n \in 0..Len(list) :
            /\ \A k \in (n + 1)..Len(list) : list[k].role # "user"
            /\ IF \E k \in 1..Len(list) : list[k].role = "user"
               THEN n >= 1 /\ list[n].role = "user"
               ELSE n = Len(list)}}

\* C22 Cache-key determinism: two message lists get the same key exactly if
\* their prefixes up to and including the last user message are the same
\* messages in the same order (the whole list standing for the prefix of a
\* list without a user message); what follows the last user message has no
\* part in the key.
C22_KeyOfPrefix ==
    (probe.fn = "computeCacheKey" /\ probe.done)
    => /\ \A pa \in KeyPrefixes(probe.a), pb \in KeyPrefixes(probe.b) :
             (pa = pb) <=> (probe.keyA = probe.keyB)
       /\ \A pa \in KeyPrefixes(probe.a) : probe.keyA = computeCacheKey(pa)

\* C22 witness: a list and the same list with an assistant message after its
\* last user message got one key, although the lists differ.
C22_Witness ==
    /\ probe.fn = "computeCacheKey" /\ probe.done
    /\ Len(probe.a) = 1 /\ probe.a[1].role = "user"
    /\ probe.b = probe.a \o <<[role |-> "assistant", content |-> <<"a">>]>>
    /\ probe.keyA = probe.keyB

\* the suffixes of a list
Suffixes(list) == {SubSeq(list, n, Len(list)) : n \in 1..(Len(list) + 1)}

\* C23 Oracle prompt truncation, as claimed: what is sent to the oracle is a
\* suffix of the message list whose serialized size is under
\* promptTruncationChars, and no longer suffix has a size under it.
C23_LongestSuffixUnder ==
    (probe.fn = "truncate" /\ probe.pc = "sent")
    => /\ probe.routingMessages \in Suffixes(probe.messages)
       /\ Len(JsonStringify(probe.routingMessages)) < probe.limit
       /\ \A longer \in Suffixes(probe.messages) :
             Len(longer) > Len(probe.routingMessages)
             => ~(Len(JsonStringify(longer)) < probe.limit)

\* C23 Oracle prompt truncation, amended: the size of what is sent is at
\* most promptTruncationChars, and every longer suffix has a size above it.
C23_LongestSuffixWithin ==
    (probe.fn = "truncate" /\ probe.pc = "sent")
    => /\ probe.routingMessages \in Suffixes(probe.messages)
       /\ Len(JsonStringify(probe.routingMessages)) <= probe.limit
       /\ \A longer \in Suffixes(probe.messages) :
             Len(longer) > Len(probe.routingMessages)
             => Len(JsonStringify(longer)) > probe.limit

\* C23 witness: the oldest of two messages was dropped and the newest was
\* sent, its serialized size being exactly promptTruncationChars.
C23_Witness ==
    /\ probe.fn = "truncate" /\ probe.pc = "sent"
    /\ Len(probe.messages) = 2 /\ probe.shifts = 1
    /\ probe.routingMessages = <<probe.messages[2]>>
    /\ Len(JsonStringify(probe.routingMessages)) = probe.limit

\* C29 Savings bounds: savings is 0 for the profile "premium" and when the
\* baseline cost is 0; for any other profile and a positive baseline cost it
\* is max(0, (baseline - estimate) / baseline), a number from 0 to 1.
C29_SavingsBounds ==
    (probe.fn = "calculateModelCost" /\ probe.done)
    => LET savings == probe.result.savings
           baseline == probe.result.baselineCost
           estimate == probe.result.costEstimate
       IN /\ savings.den > 0
          /\ probe.routingProfile = "premium" => savings.num = 0
          /\ baseline = 0 => savings.num = 0
          /\ (probe.routingProfile # "premium" /\ baseline > 0)
             => /\ 0 <= savings.num /\ savings.num <= savings.den
                /\ \/ /\ estimate <= baseline
                      /\ savings.num * baseline = (baseline - estimate) * savings.den
                   \/ estimate > baseline /\ savings.num = 0

\* C29 witness: a model dearer than the baseline, a profile other than
\* "premium" and a positive baseline cost: the difference is negative and
\* the savings are 0.
C29_Witness ==
    /\ probe.fn = "calculateModelCost" /\ probe.done
    /\ probe.routingProfile = "eco"
    /\ probe.result.baselineCost > 0
    /\ probe.result.costEstimate > probe.result.baselineCost
    /\ probe.result.savings.num = 0


----------------------------------------------------------------------------
\* Claims about streaming, cancellation and the order of attempts.

\* part is the beginning of whole
IsPrefix(part, whole) ==
    Len(part) <= Len(whole) /\ \A k \in 1..Len(part) : part[k] = whole[k]

\* the attempt under way was answered with success and a body while stream
\* was requested
Streams == stream /\ response.hasBody /\ ResponseOk(response.status)

\* C24 Streaming order: when stream was requested and the upstream succeeded
\* with a body stream, the chunks delivered to the caller are at every
\* moment the first chunks received from the upstream of that attempt, in
\* their order, each once.
C24_StreamingOrder ==
    Streams
    => /\ IsPrefix(res.body, response.chunks)
       /\ response.model = modelsToTry[i]
       /\ IsPrefix(response.chunks, OkChunks(modelsToTry[i]))
       /\ \A k, l \in 1..Len(res.body) : res.body[k] = res.body[l] => k = l

\* C24 witness: two chunks have arrived from the upstream and the first of
\* them has been delivered to the caller.
C24_Witness ==
    /\ Streams /\ pc = "piping"
    /\ Len(response.chunks) = 2
    /\ res.body = <<response.chunks[1]>>

\* C26 Caller cancellation, as claimed: once the caller has disconnected
\* from a streamed response, the upstream request of the attempt is given up.
C26_CallerCancellation == pc = "unpiped" => response.cancelled

\* the attempt ended with an exception of the transport
Threw(h) == h.outcome \in {"fetchThrew", "errTextThrew", "okTextThrew"}

\* C28 Transport failures in the chain, as claimed: a step in which an
\* attempt throws leaves the caller without any response and issues the next
\* chain entry; with no entry left it answers 500 with the internal_error
\* envelope.
C28_TransportFailures ==
    [][ ( /\ Len(hist') = Len(hist) + 1
          /\ Threw(hist'[Len(hist')]) )
        => IF i < Len(modelsToTry)
           THEN /\ res' = FreshRes
                /\ attempts' = Append(attempts, modelsToTry[i + 1])
           ELSE /\ pc' = "done" /\ attempts' = attempts
                /\ res'.headSent /\ res'.status = 500 /\ res'.ends = 1
                /\ res'.body = <<StringifyError(lastError', "internal_error")>> ]_vars

\* C30 Sequential attempts: an attempt is issued one at a time and for the
\* next chain entry; the first when body, routing and chain are done, every
\* other in the step in which the attempt before it ended with a retryable
\* status or an exception.
C30_SequentialAttempts ==
    [][ /\ Len(attempts') <= Len(hist') + 1
        /\ attempts' # attempts
           => /\ modelsToTry' = modelsToTry
              /\ attempts' = Append(attempts, modelsToTry[Len(attempts) + 1])
              /\ IF attempts = <<>>
                 THEN pc = "chainBuilt" /\ hist' = <<>>
                 ELSE /\ Len(hist') = Len(attempts) /\ Len(hist) = Len(attempts) - 1
                      /\ LET h == hist'[Len(attempts)]
                         IN \/ FailedRetryably(h)
                            \/ h.outcome = "failure" /\ res.headSent ]_vars

\* C30 witness: a routed request whose first attempt failed retryably has
\* its second attempt under way.
C30_Witness ==
    /\ request.routeCalls = 1
    /\ Len(modelsToTry) >= 2
    /\ attempts = SubSeq(modelsToTry, 1, 2)
    /\ Len(hist) = 1 /\ FailedRetryably(hist[1])
    /\ pc = "awaitFetch"


\* C25 Bounded waiting, as claimed: with every outbound call bounded in
\* time, a request whose chain is built is eventually answered: its response
\* is ended, unless the caller has left before.
C25_BoundedWaiting == <>(res.ends >= 1 \/ pc = "unpiped")


----------------------------------------------------------------------------
\* Claims about the listener (SpecListen).

\* C27 Graceful shutdown: once close() was called no connection is accepted;
\* no step takes a request out of flight other than by completing it; and a
\* promise of close() is resolved, and the process exits, only when the port
\* is released and every request that was in flight at the call is complete.
C27_GracefulShutdown ==
    /\ [][ /\ server.closeCalls > 0 => server'.open \subseteq server.open
           /\ \A c \in server.open : c \in server'.open \/ c \in server'.done ]_vars
    /\ [](server.closeCalls > 0 => ~server.listening)
    /\ []((server.closeResolved > 0 \/ server.exited)
            => /\ server.released /\ server.open = {}
               /\ server.atClose \subseteq server.done)

\* C27 witness: two requests were in flight when close() was called, a third
\* connection was refused after it, both requests completed and only then
\* was the promise resolved.
C27_Witness ==
    /\ server.closeResolved = 1 /\ server.released
    /\ Cardinality(server.atClose) = 2 /\ server.atClose = server.done
    /\ server.refused # {}

----------------------------------------------------------------------------
\* Claims about what is forwarded and about the status of failures.

\* C31 Forwarded body frame: the payload of every upstream attempt is the
\* caller's body with model replaced by the chain entry under attempt;
\* messages, max_tokens and stream are the caller's, in every attempt.
C31_ForwardedBodyFrame ==
    /\ Len(payloads) = Len(attempts)
    /\ \A k \in 1..Len(payloads) :
          /\ payloads[k].model = modelsToTry[k]
          /\ payloads[k].messages = request.body.messages
          /\ payloads[k].items = request.body.items
          /\ payloads[k].max_tokens = request.body.max_tokens
          /\ payloads[k].stream = request.body.stream

\* a streamed request with max_tokens has gone to two models
C31_Witness ==
    /\ Len(payloads) >= 2
    /\ payloads[1].model # payloads[2].model
    /\ request.body.max_tokens > 0 /\ request.body.stream
    /\ request.body.hasModel

\* C32 Turn-cache reads respect expiry: the previous model put into the
\* routing prompt is never taken from an entry with expiresAt <= now.
C32_ReadsRespectExpiry ==
    \A r \in Requests :
        rq[r].previousModel # "" => rq[r].previousLookup = "live"

\* C33 Multi-part content: the text extracted from a multi-part content is
\* the text of its first part of type text, wherever that part stands; a
\* string content yields itself.
C33_FirstTextPart ==
    (probe.fn = "extractContent" /\ probe.done) =>
        LET content == probe.content
            texts == {k \in 1..Len(content.parts) :
                        content.parts[k].kind = "object" /\ content.parts[k].type = "text"}
        IN /\ content.kind = "string" => probe.result = content.text
           /\ (content.kind = "array" /\ texts # {}) =>
                 probe.result = content.parts[CHOOSE k \in texts : \A j \in texts : k <= j].text

\* a source holds a key that is not blank
HoldsKey(source) == \E text \in source : ~NoApiKey(text)

\* C34 Credential resolution: a chat-completions request is refused for a
\* missing credential exactly if neither the environment variable nor the
\* option holds a key that is not blank.
C34_CredentialResolution ==
    pc # "arrived"
    => ( res.body = <<StringifyError(ApiKeyRequired, "invalid_request")>>
         <=> ~(HoldsKey(request.env) \/ HoldsKey(request.option)) )

\* C36 Routed model is never a sentinel: the model returned by routeWithAI,
\* stored in the turn cache and forwarded first is neither "auto" nor "eco".
C36_NeverASentinel ==
    /\ \A k \in DOMAIN turnCache : turnCache[k].modelId \notin {"auto", "eco"}
    /\ \A r \in Requests :
          (rq[r].lookup # "" /\ rq[r].forwards > 0)
          => rq[r].model \notin {"auto", "eco"}

\* C35 No attempt after relay has begun: once the head of the response is
\* written, no further upstream attempt is issued.
C35_NoAttemptAfterHead ==
    [][res.headSent => attempts' = attempts]_vars

\* the response carries the internal_error envelope
InternalErrorSent ==
    \E message \in {"All fallback models failed", lastError} :
        res.body = <<StringifyError(message, "internal_error")>>

\* C40 Status of internal_error responses: a response with the
\* internal_error envelope carries 500 or one of 429, 502, 503, 504.
C40_InternalErrorStatus ==
    InternalErrorSent => res.status \in {500} \cup RetryableStatuses

----------------------------------------------------------------------------
\* Claims about the end of the truncation and about what it keeps.

\* C37 Truncation terminates: for every message list and every limit the
\* loop is left and the oracle request is reached.
C37_TruncationTerminates ==
    <>(probe.fn = "truncate" => probe.pc = "sent")

\* the messages from the latest user message on
FromLatestUser(list) ==
    LET users == {k \in 1..Len(list) : list[k].role = "user"}
    IN IF users = {} THEN <<>>
       ELSE SubSeq(list, CHOOSE k \in users : \A j \in users : j <= k, Len(list))

\* C38 Latest user message survives truncation: the list sent to the oracle
\* holds the latest user message of the conversation.
C38_LatestUserSurvives ==
    (probe.fn = "truncate" /\ probe.pc = "sent")
    => Len(probe.routingMessages) >= Len(FromLatestUser(probe.messages))

----------------------------------------------------------------------------
\* Claims about the service of the plugin (checked under SpecService).

\* C39 Service stop closes the proxy: once a stop() of the service has
\* completed, the proxy started by register is not listening.
C39_StopClosesProxy ==
    server.stopped >= 1 => ~server.listening

====
